---------------------------- MODULE Spec2Model ----------------------------
(***************************************************************************)
(* Marketplace data and access-control model.                              *)
(*                                                                         *)
(* The state is the content of the database tables the SQL migrations      *)
(* declare (products, conversations, wishlists, orders, order_items,       *)
(* returns, messages, user_profiles, storage.objects), the sessions that   *)
(* are in the middle of a stored procedure or of a client function (one    *)
(* step per SQL statement, which is the unit the store runs atomically     *)
(* under READ COMMITTED), the order list the browser keeps, and the        *)
(* outcome of the last request.  Row-level security policies, CHECK,       *)
(* UNIQUE and FOREIGN KEY constraints are operators, translated one to one *)
(* from the migrations; the actions are the statements and procedures.     *)
(***************************************************************************)
EXTENDS Integers, Sequences, FiniteSets, TLC

(***************************************************************************)
(* Values                                                                  *)
(***************************************************************************)

\* SQL NULL / JavaScript undefined / auth.uid() of a request with no session.
NULL == -1

\* Bounds of the model.
NumUsers == 2
MaxProducts == 2
MaxConversations == 2
MaxLimit == 2
MaxOrders == 1
MaxOrderItems == 2
MaxMemOrders == 3
MaxMounts == 2
MaxTicks == 3
MaxCartItems == 2
MaxReturns == 2
MaxMessages == 2
MaxFiles == 2

Users == 1 .. NumUsers
\* The identity a request carries: a user, or none.
Callers == Users \cup {NULL}
ProductIds == 1 .. MaxProducts

\* product_status
ProductStatus == {"active", "sold", "inactive"}

\* Sessions that can be inside a stored procedure at the same time.
Sessions == {"s1", "s2"}

VARIABLES
    products,           \* table products: a set of rows
    conversations,      \* table conversations: a set of rows
    wishlists,          \* table wishlists: a set of rows
    variable_conflict,  \* the server's plpgsql.variable_conflict setting
    goc,                \* per session: a get_or_create_conversation call
    tw,                 \* per session: a toggle_wishlist call
    lastOp,             \* the last request: who issued it, its target, its outcome
    nearby,             \* the last nearby-products query and the rows it returned
    orders,             \* table orders: a set of rows
    order_items,        \* table order_items: a set of rows
    returns,            \* table returns: a set of rows
    co,                 \* the createOrder call of the data layer in progress
    memOrders,          \* the orders state of ProductContext: a sequence
    messages,           \* table messages: a set of rows
    objects,            \* storage.objects of bucket product-images: a set of rows
    user_profiles,      \* table user_profiles: one row per user
    cart,               \* the items state of CartContext: a sequence
    route,              \* the page the router shows
    checkout,           \* CheckoutPage as mounted: its instance and isProcessing
    timeouts,           \* the setTimeout callbacks of CheckoutPage not run yet
    chat,               \* MessagesPage: its state and its requests under way
    authUser,           \* the user state of AuthContext: empty or one account
    memProducts,        \* the products state of ProductContext: a sequence
    clock,              \* Date.now() as last read
    home,               \* HomePage: its filters and the Advanced Filters panel
    gocHist,            \* history: the get_or_create_conversation call that ended last
    gocRace,            \* history: the calls another call's insert has overtaken
    twHist,             \* history: the toggle_wishlist calls made in a row on one pair
    selections,         \* history: the conversations the user selected, in order
    postedBy,           \* history: the account that posted each product
    registered,         \* history: the accounts register has created
    picked              \* history: the category the user picked last

vars == <<products, conversations, wishlists, variable_conflict, goc, tw,
          lastOp, nearby, orders, order_items, returns, co, memOrders,
          messages, objects, user_profiles, cart, route, checkout, timeouts,
          chat, authUser, memProducts, clock, home, gocHist, gocRace,
          twHist, selections, postedBy, registered, picked>>

\* The order tables other than order_items, the createOrder calls and the
\* browser's order list.
ordering == <<orders, returns, co, memOrders>>

\* The tables of messaging, storage and profiles.
others == <<messages, objects, user_profiles>>

\* The cart and the checkout page.
shop == <<cart, route, checkout, timeouts>>

\* The logged-in account and the product list of the browser.
account == <<authUser, memProducts, clock>>

\* The state of the pages of the browser other than the order list.
browser == <<shop, chat, account, home>>

\* The pages other than the shop, and other than the messages page.
notShop == <<chat, account, home>>
notChat == <<shop, account, home>>
notAccount == <<shop, chat, home>>
notHome == <<shop, chat, account>>

\* The history variables record what the properties need of the past; no
\* action of the program reads them, and a specification either updates them
\* or leaves them alone.
pageHist == <<selections, postedBy, registered, picked>>
hist == <<gocHist, gocRace, twHist, pageHist>>

NoOp == [uid |-> NULL, id |-> NULL, outcome |-> "none"]

(***************************************************************************)
(* Table products and its row-level security policies                      *)
(***************************************************************************)

\* A geography point is <<longitude, latitude>>; the NULL point is <<>>.
NoPoint == <<>>

ST_MakePoint(lon, lat) == <<lon, lat>>

\* Trigger function update_location_point (BEFORE INSERT OR UPDATE).
update_location_point(new) ==
    IF new.latitude # NULL /\ new.longitude # NULL
    THEN [new EXCEPT !.location_point = ST_MakePoint(new.longitude, new.latitude)]
    ELSE new

\* CHECK (price > 0)
ProductsPriceCheck(row) == row.price > 0

\* "Products are viewable by everyone": FOR SELECT USING (status = 'active')
ProductsAreViewableByEveryone(uid, row) == row.status = "active"

\* "Sellers can insert own products": FOR INSERT WITH CHECK (auth.uid() = seller_id)
SellersCanInsertOwnProducts(uid, row) == uid = row.seller_id

\* "Sellers can update own products": FOR UPDATE USING (auth.uid() = seller_id)
SellersCanUpdateOwnProducts(uid, row) == uid = row.seller_id

\* "Sellers can delete own products": FOR DELETE USING (auth.uid() = seller_id)
SellersCanDeleteOwnProducts(uid, row) == uid = row.seller_id

\* "Active products are viewable by everyone": FOR SELECT USING (status = 'active')
ActiveProductsAreViewableByEveryone(uid, row) == row.status = "active"

MutantManageAnyProducts(uid, row) == TRUE

\* "Sellers can manage own products": FOR ALL USING (auth.uid() = seller_id)
SellersCanManageOwnProducts(uid, row) == uid = row.seller_id

\* Every policy is TO authenticated and permissive: a request with no session
\* passes none, and a row passes when one policy of the command admits it.  A
\* policy with no WITH CHECK uses its USING expression for the new row.
ProductsSelectUsing(uid, row) ==
    /\ uid # NULL
    /\ \/ ProductsAreViewableByEveryone(uid, row)
       \/ ActiveProductsAreViewableByEveryone(uid, row)
       \/ SellersCanManageOwnProducts(uid, row)

ProductsInsertCheck(uid, row) ==
    /\ uid # NULL
    /\ \/ SellersCanInsertOwnProducts(uid, row)
       \/ SellersCanManageOwnProducts(uid, row)

ProductsUpdateUsing(uid, row) ==
    /\ uid # NULL
    /\ \/ SellersCanUpdateOwnProducts(uid, row)
       \/ SellersCanManageOwnProducts(uid, row)

ProductsUpdateCheck(uid, row) ==
    /\ uid # NULL
    /\ \/ SellersCanUpdateOwnProducts(uid, row)
       \/ SellersCanManageOwnProducts(uid, row)

ProductsDeleteUsing(uid, row) ==
    /\ uid # NULL
    /\ \/ SellersCanDeleteOwnProducts(uid, row)
       \/ SellersCanManageOwnProducts(uid, row)

ProductRow(id, seller, status, price, created, lat, lon) ==
    [id |-> id, seller_id |-> seller, status |-> status, price |-> price,
     created_at |-> created, latitude |-> lat, longitude |-> lon,
     location_point |-> NoPoint, views |-> 0, city |-> NULL, state |-> NULL,
     pincode |-> NULL]

ProductExists(id) == \E r \in products : r.id = id

\* ON DELETE CASCADE of wishlists.product_id
WishlistsAfterProductDelete(id) == {w \in wishlists : w.product_id # id}

\* ON DELETE SET NULL of conversations.product_id
ConversationsAfterProductDelete(id) ==
    {IF c.product_id = id THEN [c EXCEPT !.product_id = NULL] ELSE c :
        c \in conversations}

\* ON DELETE SET NULL of messages.product_id
MessagesAfterProductDelete(id) ==
    {IF r.product_id = id THEN [r EXCEPT !.product_id = NULL] ELSE r :
        r \in messages}

\* ON DELETE CASCADE of order_items.product_id
OrderItemsAfterProductDelete(id) == {i \in order_items : i.product_id # id}

\* INSERT INTO products, as the data API runs it for caller uid (createProduct
\* sends seller_id = the caller; the API takes any row).
InsertProduct(uid, id, seller, status, price) ==
    LET new == update_location_point(
                   ProductRow(id, seller, status, price, 1, NULL, NULL))
    IN  /\ ~ProductExists(id)
        /\ IF ~ProductsInsertCheck(uid, new)
           THEN /\ lastOp' = [uid |-> uid, id |-> id, outcome |-> "rls_violation"]
                /\ UNCHANGED products
           ELSE IF ~ProductsPriceCheck(new)
           THEN /\ lastOp' = [uid |-> uid, id |-> id, outcome |-> "check_violation"]
                /\ UNCHANGED products
           ELSE /\ lastOp' = [uid |-> uid, id |-> id, outcome |-> "inserted"]
                /\ products' = products \cup {new}
        /\ UNCHANGED <<conversations, wishlists, variable_conflict, browser, order_items, ordering, others, goc, tw, nearby>>

\* createProduct(product) of the data layer: getUser, then INSERT INTO
\* products with seller_id = the caller; status takes its default.
createProduct(uid, id, price) ==
    IF uid = NULL
    THEN /\ lastOp' = [uid |-> uid, id |-> NULL,
                       outcome |-> "not_authenticated"]
         /\ UNCHANGED <<products, conversations, wishlists, variable_conflict, browser,
                        goc, tw, nearby, order_items, ordering, messages,
                        objects, user_profiles>>
    ELSE InsertProduct(uid, id, uid, "active", price)

\* updateProduct: UPDATE products SET ... WHERE id = :id
updateProduct(uid, id, seller, status, price) ==
    LET target == {r \in products :
                      r.id = id /\ ProductsSelectUsing(uid, r)
                                /\ ProductsUpdateUsing(uid, r)}
        New(r) == update_location_point(
                      [r EXCEPT !.seller_id = seller, !.status = status,
                                !.price = price])
    IN  /\ IF target = {}
           THEN /\ lastOp' = [uid |-> uid, id |-> id, outcome |-> "no_rows"]
                /\ UNCHANGED products
           ELSE IF \E r \in target : ~(ProductsUpdateCheck(uid, New(r))
                                        /\ ProductsSelectUsing(uid, New(r)))
           THEN /\ lastOp' = [uid |-> uid, id |-> id, outcome |-> "rls_violation"]
                /\ UNCHANGED products
           ELSE IF \E r \in target : ~ProductsPriceCheck(New(r))
           THEN /\ lastOp' = [uid |-> uid, id |-> id, outcome |-> "check_violation"]
                /\ UNCHANGED products
           ELSE /\ lastOp' = [uid |-> uid, id |-> id, outcome |-> "updated"]
                /\ products' = (products \ target) \cup {New(r) : r \in target}
        /\ UNCHANGED <<conversations, wishlists, variable_conflict, browser, order_items, ordering, others, goc, tw, nearby>>

\* deleteProduct: DELETE FROM products WHERE id = :id, with the cascades of
\* the tables that reference products.
deleteProduct(uid, id) ==
    LET target == {r \in products :
                      r.id = id /\ ProductsSelectUsing(uid, r)
                                /\ ProductsDeleteUsing(uid, r)}
    IN  /\ IF target = {}
           THEN /\ lastOp' = [uid |-> uid, id |-> id, outcome |-> "no_rows"]
                /\ UNCHANGED <<products, wishlists, conversations, order_items,
                               messages>>
           ELSE /\ lastOp' = [uid |-> uid, id |-> id, outcome |-> "deleted"]
                /\ products' = products \ target
                /\ wishlists' = WishlistsAfterProductDelete(id)
                /\ conversations' = ConversationsAfterProductDelete(id)
                /\ order_items' = OrderItemsAfterProductDelete(id)
                /\ messages' = MessagesAfterProductDelete(id)
        /\ UNCHANGED <<variable_conflict, browser, ordering, objects, user_profiles, goc,
                       tw, nearby>>

(***************************************************************************)
(* Table conversations, its policies and get_or_create_conversation        *)
(***************************************************************************)

\* SQL equality in a WHERE clause or a UNIQUE constraint: a comparison with
\* NULL is unknown, which selects no row and raises no conflict.
SqlEq(x, y) == x # NULL /\ y # NULL /\ x = y

\* "Users can view own conversations":
\*     FOR SELECT USING (auth.uid() = user1_id OR auth.uid() = user2_id)
UsersCanViewOwnConversations(uid, row) ==
    uid = row.user1_id \/ uid = row.user2_id

\* "Users can create conversations":
\*     FOR INSERT WITH CHECK (auth.uid() = user1_id OR auth.uid() = user2_id)
UsersCanCreateConversations(uid, row) ==
    uid = row.user1_id \/ uid = row.user2_id

ConversationsSelectUsing(uid, row) ==
    uid # NULL /\ UsersCanViewOwnConversations(uid, row)

ConversationsInsertCheck(uid, row) ==
    uid # NULL /\ UsersCanCreateConversations(uid, row)

\* UNIQUE(user1_id, user2_id, product_id)
ConversationsUnique(rows, new) ==
    ~\E c \in rows : /\ SqlEq(c.user1_id, new.user1_id)
                     /\ SqlEq(c.user2_id, new.user2_id)
                     /\ SqlEq(c.product_id, new.product_id)

\* product_id UUID REFERENCES products(id); user1_id and user2_id reference
\* user_profiles, which holds a row for every user.
ConversationsForeignKeys(new) ==
    /\ new.user1_id \in Users
    /\ new.user2_id \in Users
    /\ new.product_id = NULL \/ ProductExists(new.product_id)

\* id UUID DEFAULT uuid_generate_v4(): a value no row has.
NewConversationId == Cardinality(conversations) + 1

ConversationRow(id, u1, u2, p) ==
    [id |-> id, user1_id |-> u1, user2_id |-> u2, product_id |-> p]

IdleGoc ==
    [pc |-> "idle", uid |-> NULL, user1_id |-> NULL, user2_id |-> NULL,
     product_id |-> NULL, conversation_id |-> NULL]

\* INSERT INTO conversations through the data API, admitted by
\* "Users can create conversations".
InsertConversation(uid, u1, u2, p) ==
    LET new == ConversationRow(NewConversationId, u1, u2, p)
    IN  /\ Cardinality(conversations) < MaxConversations
        /\ IF ~ConversationsInsertCheck(uid, new)
           THEN /\ lastOp' = [uid |-> uid, id |-> NULL, outcome |-> "rls_violation"]
                /\ UNCHANGED conversations
           ELSE IF ~ConversationsForeignKeys(new)
           THEN /\ lastOp' = [uid |-> uid, id |-> NULL, outcome |-> "fk_violation"]
                /\ UNCHANGED conversations
           ELSE IF ~ConversationsUnique(conversations, new)
           THEN /\ lastOp' = [uid |-> uid, id |-> NULL, outcome |-> "unique_violation"]
                /\ UNCHANGED conversations
           ELSE /\ lastOp' = [uid |-> uid, id |-> new.id, outcome |-> "inserted"]
                /\ conversations' = conversations \cup {new}
        /\ UNCHANGED <<products, wishlists, variable_conflict, browser, order_items, ordering, others, goc, tw, nearby>>

\* get_or_create_conversation, lines 270-277: the participants in a fixed order.
ordered_user1(user1_id, user2_id) ==
    IF user1_id < user2_id THEN user1_id ELSE user2_id

ordered_user2(user1_id, user2_id) ==
    IF user1_id < user2_id THEN user2_id ELSE user1_id

\* The WHERE clause of the lookup, lines 282-284:
\*     user1_id = ordered_user1 AND user2_id = ordered_user2
\*     AND (product_id IS NULL
\*          OR conversations.product_id = get_or_create_conversation.product_id)
\* user1_id, user2_id and the first product_id are written unqualified and name
\* both a parameter of the function and a column of conversations.  PL/pgSQL
\* settles such a name by plpgsql.variable_conflict: "error" (the default)
\* rejects the statement, "use_variable" reads the parameter, "use_column"
\* reads the column.
LookupWhere(mode, c, user1_id, user2_id, product_id) ==
    LET o1 == ordered_user1(user1_id, user2_id)
        o2 == ordered_user2(user1_id, user2_id)
    IN  IF mode = "use_variable"
        THEN /\ SqlEq(user1_id, o1)
             /\ SqlEq(user2_id, o2)
             /\ (product_id = NULL \/ SqlEq(c.product_id, product_id))
        ELSE /\ SqlEq(c.user1_id, o1)
             /\ SqlEq(c.user2_id, o2)
             /\ (c.product_id = NULL \/ SqlEq(c.product_id, product_id))

\* First statement of get_or_create_conversation(user1_id, user2_id,
\* product_id), called by uid: SELECT id INTO conversation_id ...  The
\* function is SECURITY INVOKER, so the caller's policies filter the rows; of
\* several matching rows SELECT INTO keeps the first the scan returns, which
\* is any of them.
GocLookup(s, uid, user1_id, user2_id, product_id) ==
    LET found == {c \in conversations :
                     /\ ConversationsSelectUsing(uid, c)
                     /\ LookupWhere(variable_conflict, c, user1_id, user2_id,
                                    product_id)}
    IN  /\ goc[s].pc = "idle"
        /\ IF variable_conflict = "error"
           THEN /\ lastOp' = [uid |-> uid, id |-> NULL,
                              outcome |-> "ambiguous_column"]
                /\ UNCHANGED goc
           ELSE /\ \E id \in IF found = {} THEN {NULL}
                                           ELSE {c.id : c \in found} :
                       goc' = [goc EXCEPT ![s] =
                                  [pc |-> "looked_up", uid |-> uid,
                                   user1_id |-> user1_id,
                                   user2_id |-> user2_id,
                                   product_id |-> product_id,
                                   conversation_id |-> id]]
                /\ UNCHANGED lastOp
        /\ UNCHANGED <<products, conversations, wishlists, variable_conflict, browser, order_items, ordering, others,
                       tw, nearby>>

\* Second statement, lines 287-293: INSERT ... RETURNING id when the lookup
\* found nothing, then RETURN conversation_id.
GocInsertOrReturn(s) ==
    LET call == goc[s]
        new == ConversationRow(NewConversationId,
                               ordered_user1(call.user1_id, call.user2_id),
                               ordered_user2(call.user1_id, call.user2_id),
                               call.product_id)
        Result(id, outcome) == [uid |-> call.uid, id |-> id, outcome |-> outcome]
    IN  /\ call.pc = "looked_up"
        /\ IF call.conversation_id # NULL
           THEN /\ lastOp' = Result(call.conversation_id, "returned")
                /\ UNCHANGED conversations
           ELSE IF ~ConversationsInsertCheck(call.uid, new)
           THEN /\ lastOp' = Result(NULL, "rls_violation")
                /\ UNCHANGED conversations
           ELSE IF ~ConversationsForeignKeys(new)
           THEN /\ lastOp' = Result(NULL, "fk_violation")
                /\ UNCHANGED conversations
           ELSE IF ~ConversationsUnique(conversations, new)
           THEN /\ lastOp' = Result(NULL, "unique_violation")
                /\ UNCHANGED conversations
           ELSE /\ Cardinality(conversations) < MaxConversations
                /\ lastOp' = Result(new.id, "returned")
                /\ conversations' = conversations \cup {new}
        /\ goc' = [goc EXCEPT ![s] = IdleGoc]
        /\ UNCHANGED <<products, wishlists, variable_conflict, browser, order_items, ordering, others, tw, nearby>>

(***************************************************************************)
(* Table wishlists and toggle_wishlist                                     *)
(***************************************************************************)

WishlistRow(id, user, product) ==
    [id |-> id, user_id |-> user, product_id |-> product]

\* The rows of wishlists for (user, product).
WishlistRows(rows, user, product) ==
    {w \in rows : SqlEq(w.user_id, user) /\ SqlEq(w.product_id, product)}

MutantWishlistsNotUnique(rows, new) == TRUE

\* UNIQUE(user_id, product_id)
WishlistsUnique(rows, new) ==
    ~\E w \in rows : /\ SqlEq(w.user_id, new.user_id)
                     /\ SqlEq(w.product_id, new.product_id)

\* user_id REFERENCES user_profiles(id), product_id REFERENCES products(id)
WishlistsForeignKeys(new) ==
    new.user_id \in Users /\ ProductExists(new.product_id)

\* id uuid DEFAULT gen_random_uuid(): a value no row has.
WishlistIds == 1 .. (NumUsers * MaxProducts + 1)

FreeWishlistIds == WishlistIds \ {w.id : w \in wishlists}

NewWishlistId == CHOOSE i \in FreeWishlistIds : \A j \in FreeWishlistIds : i <= j

IdleToggle ==
    [pc |-> "idle", user_uuid |-> NULL, product_uuid |-> NULL,
     wishlist_exists |-> FALSE]

\* SELECT EXISTS(SELECT 1 FROM wishlists WHERE user_id = user_uuid AND
\* product_id = product_uuid), lines 187-191.
InWishlist(rows, user, product) == WishlistRows(rows, user, product) # {}

\* toggle_wishlist(product_uuid) called with identity uid, lines 181-191:
\* user_uuid := auth.uid(), the exception when it is NULL, and the EXISTS
\* query.  The function is SECURITY DEFINER: no policy filters its statements.
ToggleCheck(s, uid, product_uuid) ==
    /\ tw[s].pc = "idle"
    /\ IF uid = NULL
       THEN /\ lastOp' = [uid |-> uid, id |-> product_uuid,
                          outcome |-> "not_authenticated"]
            /\ UNCHANGED tw
       ELSE /\ tw' = [tw EXCEPT ![s] =
                         [pc |-> "checked", user_uuid |-> uid,
                          product_uuid |-> product_uuid,
                          wishlist_exists |->
                              InWishlist(wishlists, uid, product_uuid)]]
            /\ UNCHANGED lastOp
    /\ UNCHANGED <<products, conversations, wishlists, variable_conflict, browser, order_items, ordering, others, goc,
                   nearby>>

MutantDeleteNothing(rows, user, product) == {}

\* DELETE FROM wishlists WHERE user_id = user_uuid AND product_id =
\* product_uuid, lines 195-196: the rows it removes.
ToggleDeleted(rows, user, product) == WishlistRows(rows, user, product)

MutantToggleReturnsTrue(exists) == "returned_true"

\* RETURN false after the DELETE, RETURN true after the INSERT, lines 197, 202.
ToggleReturn(exists) == IF exists THEN "returned_false" ELSE "returned_true"

\* toggle_wishlist, lines 193-203: DELETE and RETURN false, or INSERT and
\* RETURN true.  A DELETE that finds the row already gone deletes nothing.
ToggleWrite(s) ==
    LET call == tw[s]
        uid == call.user_uuid
        new == WishlistRow(NewWishlistId, uid, call.product_uuid)
        Result(outcome) ==
            [uid |-> uid, id |-> call.product_uuid, outcome |-> outcome]
    IN  /\ call.pc = "checked"
        /\ IF call.wishlist_exists
           THEN /\ wishlists' = wishlists \
                                  ToggleDeleted(wishlists, uid, call.product_uuid)
                /\ lastOp' = Result(ToggleReturn(TRUE))
           ELSE IF ~WishlistsForeignKeys(new)
           THEN /\ lastOp' = Result("fk_violation")
                /\ UNCHANGED wishlists
           ELSE IF ~WishlistsUnique(wishlists, new)
           THEN /\ lastOp' = Result("unique_violation")
                /\ UNCHANGED wishlists
           ELSE /\ FreeWishlistIds # {}
                /\ wishlists' = wishlists \cup {new}
                /\ lastOp' = Result(ToggleReturn(FALSE))
        /\ tw' = [tw EXCEPT ![s] = IdleToggle]
        /\ UNCHANGED <<products, conversations, variable_conflict, browser, order_items, ordering, others, goc, nearby>>

(***************************************************************************)
(* get_nearby_products and its client wrapper                              *)
(***************************************************************************)

\* created_at values, and the (latitude, longitude) pairs products and
\* queries are placed at; <<NULL, NULL>> is a product with no coordinates.
Times == {1, 2}
ProductPlaces == {<<NULL, NULL>>, <<0, 0>>, <<2, 1>>}
QueryCoords == {NULL, 0, 1}
Radii == {1}

Abs(x) == IF x < 0 THEN -x ELSE x

Min(x, y) == IF x <= y THEN x ELSE y

\* ST_Distance of two geography points, in metres.  One degree of the model's
\* grid is 500 m along either axis.
ST_Distance(g1, g2) == 500 * (Abs(g1[1] - g2[1]) + Abs(g1[2] - g2[2]))

\* ST_DWithin(g1, g2, metres)
ST_DWithin(g1, g2, metres) == ST_Distance(g1, g2) <= metres

\* (ST_Distance(...) / 1000)::DECIMAL, the distance_km column.  The model
\* holds a DECIMAL as its number of thousandths: d metres are d/1000 km, that
\* is d thousandths of a km.
distance_km(location_point, user_lat, user_lon) ==
    ST_Distance(location_point, ST_MakePoint(user_lon, user_lat))

\* The sequences that list every element of S once.
Enumerations(S) ==
    {f \in [1 .. Cardinality(S) -> S] :
        \A i, j \in 1 .. Cardinality(S) : i # j => f[i] # f[j]}

\* ORDER BY: the enumerations of S in which no row comes after a row that
\* the sort key puts strictly behind it; before holds the pairs <<r1, r2>> in
\* which the key puts r1 strictly before r2.  Rows with equal keys come in any
\* order.
OrderBy(S, before) ==
    {f \in Enumerations(S) :
        \A i, j \in 1 .. Cardinality(S) : i < j => <<f[j], f[i]>> \notin before}

\* LIMIT limit_count
Limit(rows, limit_count) == SubSeq(rows, 1, Min(limit_count, Len(rows)))

MutantAnyStatus(p) == TRUE

\* WHERE p.status = 'active', line 194
NoLocationWhere(p) == p.status = "active"

\* ORDER BY p.created_at DESC, line 195
NoLocationBefore(r1, r2) == r1.created_at > r2.created_at

\* WHERE p.status = 'active' AND p.location_point IS NOT NULL
\*   AND ST_DWithin(p.location_point, <the user's point>, radius_km * 1000),
\* lines 226-232
LocationWhere(p, user_lat, user_lon, radius_km) ==
    /\ p.status = "active"
    /\ p.location_point # NoPoint
    /\ ST_DWithin(p.location_point, ST_MakePoint(user_lon, user_lat),
                  radius_km * 1000)

\* ORDER BY distance_km ASC, p.created_at DESC, line 233
LocationBefore(r1, r2) ==
    \/ r1.distance_km < r2.distance_km
    \/ r1.distance_km = r2.distance_km /\ r1.created_at > r2.created_at

\* A row of the result: the columns of p the properties read, and distance_km.
NearbyRow(p, d) ==
    [id |-> p.id, status |-> p.status, created_at |-> p.created_at,
     distance_km |-> d]

\* get_nearby_products(user_lat, user_lon, radius_km, limit_count) run for
\* caller uid (the function is SECURITY INVOKER: the caller's SELECT policies
\* on products apply): every result the query can return.  The joins with
\* user_profiles and categories drop no row: seller_id and category_id are
\* NOT NULL foreign keys and both tables are readable by every signed-in user.
get_nearby_products(uid, user_lat, user_lon, radius_km, limit_count) ==
    LET visible == {p \in products : ProductsSelectUsing(uid, p)}
    IN  IF user_lat = NULL \/ user_lon = NULL
        THEN LET rows == {NearbyRow(p, NULL) :
                             p \in {q \in visible : NoLocationWhere(q)}}
             IN  {Limit(f, limit_count) :
                     f \in OrderBy(rows, {r \in rows \X rows :
                                             NoLocationBefore(r[1], r[2])})}
        ELSE LET rows == {NearbyRow(p, distance_km(p.location_point,
                                                   user_lat, user_lon)) :
                             p \in {q \in visible :
                                       LocationWhere(q, user_lat, user_lon,
                                                     radius_km)}}
             IN  {Limit(f, limit_count) :
                     f \in OrderBy(rows, {r \in rows \X rows :
                                             LocationBefore(r[1], r[2])})}

\* JavaScript's x || y: y when x is falsy (undefined, null, 0, NaN).
JsOr(x, y) == IF x = NULL \/ x = 0 THEN y ELSE x

NoQuery ==
    [via |-> "none", uid |-> NULL, userLat |-> NULL, userLon |-> NULL,
     user_lat |-> NULL, user_lon |-> NULL, radius_km |-> 0, limit_count |-> 0,
     rows |-> <<>>]

\* The procedure called through the data API with the given arguments, by a
\* client that has no query pending; nearby holds the call and its result.
RpcGetNearbyProducts(uid, user_lat, user_lon, radius_km, limit_count) ==
    /\ nearby = NoQuery
    /\ \E rows \in get_nearby_products(uid, user_lat, user_lon, radius_km,
                                       limit_count) :
           nearby' = [via |-> "rpc", uid |-> uid, userLat |-> user_lat,
                      userLon |-> user_lon, user_lat |-> user_lat,
                      user_lon |-> user_lon, radius_km |-> radius_km,
                      limit_count |-> limit_count, rows |-> rows]
    /\ UNCHANGED <<products, conversations, wishlists, variable_conflict, browser, order_items, ordering, others, goc,
                   tw, lastOp>>

\* getNearbyProducts(userLat, userLon, radiusKm, limitCount) of the client:
\* rpc('get_nearby_products', {user_lat: userLat || null,
\*                             user_lon: userLon || null, ...}).
getNearbyProducts(uid, userLat, userLon, radiusKm, limitCount) ==
    LET user_lat == JsOr(userLat, NULL)
        user_lon == JsOr(userLon, NULL)
    IN  /\ nearby = NoQuery
        /\ \E rows \in get_nearby_products(uid, user_lat, user_lon, radiusKm,
                                           limitCount) :
               nearby' = [via |-> "client", uid |-> uid, userLat |-> userLat,
                          userLon |-> userLon, user_lat |-> user_lat,
                          user_lon |-> user_lon, radius_km |-> radiusKm,
                          limit_count |-> limitCount, rows |-> rows]
        /\ UNCHANGED <<products, conversations, wishlists, variable_conflict, browser, order_items, ordering, others,
                       goc, tw, lastOp>>

\* The client has taken the rows (return data || []) and can query again.
NearbyReturn ==
    /\ nearby # NoQuery
    /\ nearby' = NoQuery
    /\ UNCHANGED <<products, conversations, wishlists, variable_conflict, browser, order_items, ordering, others, goc,
                   tw, lastOp>>

(***************************************************************************)
(* Tables orders and order_items, their policies and createOrder           *)
(***************************************************************************)

OrderIds == 1 .. MaxOrders
OrderItemIds == 1 .. MaxOrderItems

\* order_status
OrderStatus ==
    {"pending", "confirmed", "shipped", "delivered", "cancelled", "returned"}

\* CHECK (total_amount > 0)
OrdersTotalAmountCheck(row) == row.total_amount > 0

MutantNoOrderItemsCheck(row) == TRUE

\* CHECK (quantity > 0)
OrderItemsQuantityCheck(row) == row.quantity > 0

\* CHECK (unit_price > 0)
OrderItemsUnitPriceCheck(row) == row.unit_price > 0

\* CHECK (total_price > 0)
OrderItemsTotalPriceCheck(row) == row.total_price > 0

OrderItemsChecks(row) ==
    /\ OrderItemsQuantityCheck(row)
    /\ OrderItemsUnitPriceCheck(row)
    /\ OrderItemsTotalPriceCheck(row)

\* "Users can view own orders as buyer": FOR SELECT USING (auth.uid() = buyer_id)
UsersCanViewOwnOrdersAsBuyer(uid, row) == uid = row.buyer_id

\* "Users can view own orders as seller": FOR SELECT USING (auth.uid() = seller_id)
UsersCanViewOwnOrdersAsSeller(uid, row) == uid = row.seller_id

\* "Buyers can create orders": FOR INSERT WITH CHECK (auth.uid() = buyer_id)
BuyersCanCreateOrders(uid, row) == uid = row.buyer_id

\* "Sellers can update order status": FOR UPDATE USING (auth.uid() = seller_id)
SellersCanUpdateOrderStatus(uid, row) == uid = row.seller_id

OrdersInsertCheck(uid, row) == uid # NULL /\ BuyersCanCreateOrders(uid, row)

OrdersUpdateUsing(uid, row) ==
    uid # NULL /\ SellersCanUpdateOrderStatus(uid, row)

OrdersSelectUsing(uid, row) ==
    /\ uid # NULL
    /\ \/ UsersCanViewOwnOrdersAsBuyer(uid, row)
       \/ UsersCanViewOwnOrdersAsSeller(uid, row)

\* "Users can view order items for their orders": the orders the subquery
\* reads are the ones the caller may select.
UsersCanViewOrderItemsForTheirOrders(uid, row) ==
    \E o \in orders :
        /\ OrdersSelectUsing(uid, o)
        /\ o.id = row.order_id
        /\ (o.buyer_id = uid \/ o.seller_id = uid)

\* "Buyers can create order items"
BuyersCanCreateOrderItems(uid, row) ==
    \E o \in orders :
        /\ OrdersSelectUsing(uid, o)
        /\ o.id = row.order_id
        /\ o.buyer_id = uid

OrderItemsSelectUsing(uid, row) ==
    uid # NULL /\ UsersCanViewOrderItemsForTheirOrders(uid, row)

OrderItemsInsertCheck(uid, row) ==
    uid # NULL /\ BuyersCanCreateOrderItems(uid, row)

\* order_items has no policy FOR UPDATE and none FOR DELETE.
OrderItemsUpdateUsing(uid, row) == FALSE

OrderItemsDeleteUsing(uid, row) == FALSE

OrderRow(id, buyer, seller, total, status) ==
    [id |-> id, buyer_id |-> buyer, seller_id |-> seller,
     total_amount |-> total, status |-> status]

OrderItemRow(id, order, item) ==
    [id |-> id, order_id |-> order, product_id |-> item.product_id,
     quantity |-> item.quantity, unit_price |-> item.unit_price,
     total_price |-> item.total_price]

NewOrderId == Cardinality(orders) + 1

FreeOrderItemIds == OrderItemIds \ {i.id : i \in order_items}

RECURSIVE FirstIds(_, _)
\* The n smallest ids of S, in increasing order.
FirstIds(S, n) ==
    IF n = 0 THEN <<>>
    ELSE LET m == CHOOSE x \in S : \A y \in S : x <= y
         IN  <<m>> \o FirstIds(S \ {m}, n - 1)

\* No createOrder call in progress.
IdleOrder == [pc |-> "idle", uid |-> NULL, order_id |-> NULL]

\* INSERT INTO orders: the row gets the default status 'pending'.
InsertOrderOutcome(uid, new) ==
    IF ~OrdersInsertCheck(uid, new) THEN "rls_violation"
    ELSE IF ~OrdersTotalAmountCheck(new) THEN "check_violation"
    ELSE "inserted"

InsertOrder(uid, buyer, seller, total) ==
    LET new == OrderRow(NewOrderId, buyer, seller, total, "pending")
        outcome == InsertOrderOutcome(uid, new)
    IN  /\ NewOrderId \in OrderIds
        /\ co.pc = "idle"
        /\ lastOp' = [uid |-> uid, id |-> new.id, outcome |-> outcome]
        /\ orders' = IF outcome = "inserted" THEN orders \cup {new} ELSE orders
        /\ UNCHANGED <<products, conversations, wishlists, variable_conflict, browser,
                       goc, tw, nearby, order_items, returns, co, memOrders,
                       others>>

\* UPDATE orders SET total_amount = .., status = .. WHERE id = :id
UpdateOrder(uid, id, total, status) ==
    LET target == {o \in orders :
                      o.id = id /\ OrdersSelectUsing(uid, o)
                                /\ OrdersUpdateUsing(uid, o)}
        New(o) == [o EXCEPT !.total_amount = total, !.status = status]
    IN  /\ co.pc = "idle"
        /\ IF target = {}
           THEN /\ lastOp' = [uid |-> uid, id |-> id, outcome |-> "no_rows"]
                /\ UNCHANGED orders
           ELSE IF \E o \in target : ~(OrdersUpdateUsing(uid, New(o))
                                        /\ OrdersSelectUsing(uid, New(o)))
           THEN /\ lastOp' = [uid |-> uid, id |-> id,
                              outcome |-> "rls_violation"]
                /\ UNCHANGED orders
           ELSE IF \E o \in target : ~OrdersTotalAmountCheck(New(o))
           THEN /\ lastOp' = [uid |-> uid, id |-> id,
                              outcome |-> "check_violation"]
                /\ UNCHANGED orders
           ELSE /\ lastOp' = [uid |-> uid, id |-> id, outcome |-> "updated"]
                /\ orders' = (orders \ target) \cup {New(o) : o \in target}
        /\ UNCHANGED <<products, conversations, wishlists, variable_conflict, browser,
                       goc, tw, nearby, order_items, returns, co, memOrders,
                       others>>

\* INSERT INTO order_items of the rows items (a sequence), as one statement:
\* the rows are stored together or not at all.
OrderItemsAfterInsert(uid, order, items) ==
    LET ids == FirstIds(FreeOrderItemIds, Len(items))
        new == {OrderItemRow(ids[k], order, items[k]) : k \in 1 .. Len(items)}
    IN  IF \E r \in new : ~OrderItemsInsertCheck(uid, r)
        THEN [outcome |-> "rls_violation", rows |-> order_items]
        ELSE IF \E r \in new : ~OrderItemsChecks(r)
        THEN [outcome |-> "check_violation", rows |-> order_items]
        ELSE IF \E r \in new : ~ProductExists(r.product_id)
        THEN [outcome |-> "fk_violation", rows |-> order_items]
        ELSE [outcome |-> "inserted", rows |-> order_items \cup new]

InsertOrderItems(uid, order, items) ==
    LET after == OrderItemsAfterInsert(uid, order, items)
    IN  /\ co.pc = "idle"
        /\ Len(items) > 0
        /\ Len(items) <= Cardinality(FreeOrderItemIds)
        /\ lastOp' = [uid |-> uid, id |-> order, outcome |-> after.outcome]
        /\ order_items' = after.rows
        /\ UNCHANGED <<products, conversations, wishlists, variable_conflict, browser,
                       goc, tw, nearby, orders, returns, co, memOrders, others>>

\* UPDATE order_items SET quantity = .., unit_price = .., total_price = ..
\* WHERE id = :id
UpdateOrderItem(uid, id, quantity, unit_price, total_price) ==
    LET target == {i \in order_items :
                      i.id = id /\ OrderItemsSelectUsing(uid, i)
                                /\ OrderItemsUpdateUsing(uid, i)}
        New(i) == [i EXCEPT !.quantity = quantity, !.unit_price = unit_price,
                            !.total_price = total_price]
    IN  /\ co.pc = "idle"
        /\ IF target = {}
           THEN /\ lastOp' = [uid |-> uid, id |-> id, outcome |-> "no_rows"]
                /\ UNCHANGED order_items
           ELSE IF \E i \in target : ~OrderItemsChecks(New(i))
           THEN /\ lastOp' = [uid |-> uid, id |-> id,
                              outcome |-> "check_violation"]
                /\ UNCHANGED order_items
           ELSE /\ lastOp' = [uid |-> uid, id |-> id, outcome |-> "updated"]
                /\ order_items' = (order_items \ target)
                                      \cup {New(i) : i \in target}
        /\ UNCHANGED <<products, conversations, wishlists, variable_conflict, browser,
                       goc, tw, nearby, orders, returns, co, memOrders, others>>

\* DELETE FROM order_items WHERE id = :id
DeleteOrderItem(uid, id) ==
    LET target == {i \in order_items :
                      i.id = id /\ OrderItemsSelectUsing(uid, i)
                                /\ OrderItemsDeleteUsing(uid, i)}
    IN  /\ co.pc = "idle"
        /\ lastOp' = [uid |-> uid, id |-> id,
                      outcome |-> IF target = {} THEN "no_rows" ELSE "deleted"]
        /\ order_items' = order_items \ target
        /\ UNCHANGED <<products, conversations, wishlists, variable_conflict, browser,
                       goc, tw, nearby, orders, returns, co, memOrders, others>>

\* createOrder(orderInput, items) of the data layer, lines 370-380: getUser,
\* then INSERT INTO orders ... RETURNING * with buyer_id = the caller.
CreateOrderInsertOrder(uid, seller, total) ==
    LET new == OrderRow(NewOrderId, uid, seller, total, "pending")
        outcome == InsertOrderOutcome(uid, new)
    IN  /\ NewOrderId \in OrderIds
        /\ co.pc = "idle"
        /\ IF uid = NULL
           THEN /\ lastOp' = [uid |-> uid, id |-> NULL,
                              outcome |-> "not_authenticated"]
                /\ UNCHANGED <<orders, co>>
           ELSE IF outcome # "inserted"
           THEN /\ lastOp' = [uid |-> uid, id |-> new.id, outcome |-> outcome]
                /\ UNCHANGED <<orders, co>>
           ELSE /\ orders' = orders \cup {new}
                /\ co' = [pc |-> "order_inserted", uid |-> uid,
                          order_id |-> new.id]
                /\ UNCHANGED lastOp
        /\ UNCHANGED <<products, conversations, wishlists, variable_conflict, browser,
                       goc, tw, nearby, order_items, returns, memOrders,
                       others>>

\* createOrder, lines 382-394: INSERT INTO order_items of the items with
\* order_id = the new order's id, then return the order.  The items are an
\* argument of the call that nothing reads before this statement.
CreateOrderInsertItems(items) ==
    LET after == IF Len(items) = 0
                 THEN [outcome |-> "inserted", rows |-> order_items]
                 ELSE OrderItemsAfterInsert(co.uid, co.order_id, items)
    IN  /\ co.pc = "order_inserted"
        /\ Len(items) <= Cardinality(FreeOrderItemIds)
        /\ lastOp' = [uid |-> co.uid, id |-> co.order_id,
                      outcome |-> IF after.outcome = "inserted"
                                  THEN "created" ELSE after.outcome]
        /\ order_items' = after.rows
        /\ co' = IdleOrder
        /\ UNCHANGED <<products, conversations, wishlists, variable_conflict, browser,
                       goc, tw, nearby, orders, returns, memOrders, others>>

(***************************************************************************)
(* The orders of the browser: createOrder of ProductContext                *)
(***************************************************************************)

RECURSIVE reduce(_, _)
\* items.reduce((total, item) => total + (item.price * item.quantity), total)
reduce(items, total) ==
    IF items = <<>> THEN total
    ELSE reduce(Tail(items), total + (Head(items).price * Head(items).quantity))

\* totalAmount of the new order
totalAmount(items) == reduce(items, 0)

\* The order OrderProvider starts with: one delivered order of one item.
SeededOrders ==
    <<[items |-> <<[price |-> 1, quantity |-> 1]>>, totalAmount |-> 1,
      status |-> "delivered"]>>

\* createOrder(items, deliveryAddress, paymentMethod): the new order goes to
\* the front of the list.  CheckoutPage calls it with the cart's items, and
\* only when the cart is not empty.
createOrder(items) ==
    /\ Len(memOrders) < MaxMemOrders
    /\ memOrders' = <<[items |-> items, totalAmount |-> totalAmount(items),
                       status |-> "ordered"]>> \o memOrders
    /\ UNCHANGED <<products, conversations, wishlists, variable_conflict, browser, goc,
                   tw, lastOp, nearby, orders, order_items, returns, co,
                   others>>

(***************************************************************************)
(* CheckoutPage: Buy Now, Place Order and its delayed completion           *)
(***************************************************************************)

\* Everything but the cart, the pages and the browser's order list.
store ==
    <<products, conversations, wishlists, variable_conflict, goc, tw, lastOp,
      nearby, orders, order_items, returns, co, others>>

\* useState(false) of a CheckoutPage that is not mounted.
NoCheckout == [instance |-> 0, isProcessing |-> FALSE]

\* addToCart(product) of CartContext (the context is not among the sources):
\* the product joins the items of the cart.
addToCart(items, price) == Append(items, [price |-> price, quantity |-> 1])

\* clearCart() of CartContext (not among the sources): no item is left.
clearCart == <<>>

\* <Route path="/checkout" element={<CheckoutPage />} />: the page mounts
\* with isProcessing = false; with an empty cart its render navigates to
\* /cart.
MountCheckout(items) ==
    IF items = <<>>
    THEN /\ route' = "cart"
         /\ checkout' = NoCheckout
    ELSE /\ route' = "checkout"
         /\ checkout' = [instance |-> checkout.instance + 1,
                         isProcessing |-> FALSE]

\* handleBuyNow of ProductDetailPage, the user being logged in:
\* addToCart(product); navigate('/checkout').
handleBuyNow(price) ==
    /\ route = "product"
    /\ Len(cart) < MaxCartItems
    /\ checkout.instance < MaxMounts
    /\ cart' = addToCart(cart, price)
    /\ MountCheckout(cart')
    /\ UNCHANGED <<store, notShop, memOrders, timeouts>>

\* Leaving the page by the links every page shows (Navbar) and opening a
\* product: CheckoutPage unmounts, its timeouts stay.
OpenProduct ==
    /\ route # "product"
    /\ route' = "product"
    /\ checkout' = [checkout EXCEPT !.isProcessing = FALSE]
    /\ UNCHANGED <<store, notShop, memOrders, cart, timeouts>>

\* Back to Cart of CheckoutPage: navigate('/cart').
BackToCart ==
    /\ route = "checkout"
    /\ route' = "cart"
    /\ checkout' = [checkout EXCEPT !.isProcessing = FALSE]
    /\ UNCHANGED <<store, notShop, memOrders, cart, timeouts>>

\* The Place Order button: disabled={isProcessing}, onClick runs
\* handlePlaceOrder, which sets isProcessing and starts the timeout with the
\* items of this render.
handlePlaceOrder ==
    /\ route = "checkout"
    /\ ~checkout.isProcessing
    /\ checkout' = [checkout EXCEPT !.isProcessing = TRUE]
    /\ timeouts' = Append(timeouts, [items |-> cart,
                                     instance |-> checkout.instance])
    /\ UNCHANGED <<store, notShop, memOrders, cart, route>>

\* The callback of setTimeout(..., 2000); callbacks run in the order they
\* were set.  createOrder(items, ...); clearCart(); setIsProcessing(false),
\* which is the state of the instance that set the timeout;
\* navigate('/orders?success=...'), which unmounts CheckoutPage.
PlaceOrderTimeout ==
    /\ timeouts # <<>>
    /\ Len(memOrders) < MaxMemOrders
    /\ memOrders' = <<[items |-> Head(timeouts).items,
                       totalAmount |-> totalAmount(Head(timeouts).items),
                       status |-> "ordered"]>> \o memOrders
    /\ cart' = clearCart
    /\ checkout' = [checkout EXCEPT !.isProcessing = FALSE]
    /\ route' = "orders"
    /\ timeouts' = Tail(timeouts)
    /\ UNCHANGED <<store, notShop>>

(***************************************************************************)
(* Table returns, its policies and createReturn                            *)
(***************************************************************************)

\* "Users can view own returns as buyer": FOR SELECT USING (auth.uid() = buyer_id)
UsersCanViewOwnReturnsAsBuyer(uid, row) == uid = row.buyer_id

\* "Users can view own returns as seller": FOR SELECT USING (auth.uid() = seller_id)
UsersCanViewOwnReturnsAsSeller(uid, row) == uid = row.seller_id

\* "Buyers can create return requests": FOR INSERT WITH CHECK (auth.uid() = buyer_id)
BuyersCanCreateReturnRequests(uid, row) == uid = row.buyer_id

ReturnsInsertCheck(uid, row) ==
    uid # NULL /\ BuyersCanCreateReturnRequests(uid, row)

\* order_id REFERENCES orders(id)
ReturnsForeignKeys(row) == \E o \in orders : o.id = row.order_id

ReturnRow(id, order, buyer, seller) ==
    [id |-> id, order_id |-> order, buyer_id |-> buyer, seller_id |-> seller,
     status |-> "requested"]

NewReturnId == Cardinality(returns) + 1

\* INSERT INTO returns
InsertReturn(uid, order, buyer, seller) ==
    LET new == ReturnRow(NewReturnId, order, buyer, seller)
    IN  /\ NewReturnId <= MaxReturns
        /\ IF ~ReturnsInsertCheck(uid, new)
           THEN /\ lastOp' = [uid |-> uid, id |-> order,
                              outcome |-> "rls_violation"]
                /\ UNCHANGED returns
           ELSE IF ~ReturnsForeignKeys(new)
           THEN /\ lastOp' = [uid |-> uid, id |-> order,
                              outcome |-> "fk_violation"]
                /\ UNCHANGED returns
           ELSE /\ lastOp' = [uid |-> uid, id |-> order, outcome |-> "inserted"]
                /\ returns' = returns \cup {new}
        /\ UNCHANGED <<products, conversations, wishlists, variable_conflict, browser,
                       goc, tw, nearby, orders, order_items, co, memOrders,
                       others>>

MutantCreateReturnUnchecked(uid, order_id, seller_id) ==
    InsertReturn(uid, order_id, uid, seller_id)

\* createReturn(returnData) of the data layer: getUser, then INSERT INTO
\* returns with buyer_id = the caller.
createReturn(uid, order_id, seller_id) ==
    IF uid = NULL
    THEN /\ lastOp' = [uid |-> uid, id |-> order_id,
                       outcome |-> "not_authenticated"]
         /\ UNCHANGED <<products, conversations, wishlists, variable_conflict, browser,
                        goc, tw, nearby, orders, order_items, returns, co,
                        memOrders, others>>
    ELSE InsertReturn(uid, order_id, uid, seller_id)

(***************************************************************************)
(* Table messages, its policies, sendMessage and markMessagesAsRead        *)
(***************************************************************************)

\* "Users can view own messages":
\* FOR SELECT USING (auth.uid() = sender_id OR auth.uid() = receiver_id)
UsersCanViewOwnMessages(uid, row) ==
    uid = row.sender_id \/ uid = row.receiver_id

\* "Users can send messages": FOR INSERT WITH CHECK (auth.uid() = sender_id)
UsersCanSendMessages(uid, row) == uid = row.sender_id

\* "Users can update own messages":
\* FOR UPDATE USING (auth.uid() = sender_id OR auth.uid() = receiver_id)
UsersCanUpdateOwnMessages(uid, row) ==
    uid = row.sender_id \/ uid = row.receiver_id

MessagesSelectUsing(uid, row) ==
    uid # NULL /\ UsersCanViewOwnMessages(uid, row)

MessagesInsertCheck(uid, row) == uid # NULL /\ UsersCanSendMessages(uid, row)

MessagesUpdateUsing(uid, row) ==
    uid # NULL /\ UsersCanUpdateOwnMessages(uid, row)

\* conversation_id UUID NOT NULL
MessagesNotNull(row) == row.conversation_id # NULL

\* conversation_id REFERENCES conversations(id), sender_id and receiver_id
\* REFERENCES user_profiles(id), product_id REFERENCES products(id)
MessagesForeignKeys(row) ==
    /\ \E c \in conversations : c.id = row.conversation_id
    /\ row.sender_id \in Users
    /\ row.receiver_id \in Users
    /\ row.product_id = NULL \/ ProductExists(row.product_id)

\* is_read BOOLEAN DEFAULT FALSE
MessageRow(id, conversation, sender, receiver, product) ==
    [id |-> id, conversation_id |-> conversation, sender_id |-> sender,
     receiver_id |-> receiver, product_id |-> product, is_read |-> FALSE]

NewMessageId == Cardinality(messages) + 1

\* INSERT INTO messages
InsertMessage(uid, conversation, sender, receiver, product) ==
    LET new == MessageRow(NewMessageId, conversation, sender, receiver, product)
    IN  /\ NewMessageId <= MaxMessages
        /\ IF ~MessagesInsertCheck(uid, new)
           THEN /\ lastOp' = [uid |-> uid, id |-> NULL,
                              outcome |-> "rls_violation"]
                /\ UNCHANGED messages
           ELSE IF ~MessagesNotNull(new)
           THEN /\ lastOp' = [uid |-> uid, id |-> NULL,
                              outcome |-> "not_null_violation"]
                /\ UNCHANGED messages
           ELSE IF ~MessagesForeignKeys(new)
           THEN /\ lastOp' = [uid |-> uid, id |-> NULL,
                              outcome |-> "fk_violation"]
                /\ UNCHANGED messages
           ELSE /\ lastOp' = [uid |-> uid, id |-> new.id,
                              outcome |-> "inserted"]
                /\ messages' = messages \cup {new}
        /\ UNCHANGED <<products, conversations, wishlists, variable_conflict, browser,
                       goc, tw, nearby, order_items, ordering, objects,
                       user_profiles>>

\* sendMessage(receiverId, productId, messageText) of the data layer
\* (part_008): getUser, then INSERT INTO messages (sender_id, receiver_id,
\* product_id, message_text); the row carries no conversation_id.
sendMessage(uid, receiverId, productId) ==
    IF uid = NULL
    THEN /\ lastOp' = [uid |-> uid, id |-> NULL,
                       outcome |-> "not_authenticated"]
         /\ UNCHANGED <<products, conversations, wishlists, variable_conflict, browser,
                        goc, tw, nearby, order_items, ordering, messages,
                        objects, user_profiles>>
    ELSE InsertMessage(uid, NULL, uid, receiverId, productId)

\* sendMessage(receiverId, messageText, productId) of the data layer
\* (part_009): getUser, then rpc('send_message') with sender_id = the caller.
\* send_message begins with get_or_create_conversation(sender_id,
\* receiver_id, product_id), whose first statement is the lookup.
sendMessageRpc(s, uid, receiverId, productId) ==
    IF uid = NULL
    THEN /\ goc[s].pc = "idle"
         /\ lastOp' = [uid |-> uid, id |-> NULL,
                       outcome |-> "not_authenticated"]
         /\ UNCHANGED <<products, conversations, wishlists, variable_conflict,
                        browser, goc, tw, nearby, order_items, ordering,
                        others>>
    ELSE GocLookup(s, uid, uid, receiverId, productId)

\* The rest of send_message: the INSERT of get_or_create_conversation when
\* the lookup found nothing, INSERT INTO messages with the conversation's
\* id, UPDATE conversations SET last_message_at (a column the model leaves
\* out; no policy admits the update), RETURN message_id.  The function is
\* one statement of the caller: an error in it undoes the conversation it
\* inserted.
send_message(s) ==
    LET call == goc[s]
        created == ConversationRow(NewConversationId,
                               ordered_user1(call.user1_id, call.user2_id),
                               ordered_user2(call.user1_id, call.user2_id),
                               call.product_id)
        conversation_id ==
            IF call.conversation_id # NULL THEN call.conversation_id
            ELSE created.id
        after ==
            IF call.conversation_id # NULL THEN conversations
            ELSE conversations \cup {created}
        new == MessageRow(NewMessageId, conversation_id, call.user1_id,
                          call.user2_id, call.product_id)
        Result(id, outcome) == [uid |-> call.uid, id |-> id, outcome |-> outcome]
        outcome ==
            IF call.conversation_id = NULL
               /\ ~ConversationsInsertCheck(call.uid, created)
            THEN "rls_violation"
            ELSE IF call.conversation_id = NULL
                    /\ ~ConversationsForeignKeys(created)
            THEN "fk_violation"
            ELSE IF call.conversation_id = NULL
                    /\ ~ConversationsUnique(conversations, created)
            THEN "unique_violation"
            ELSE IF ~MessagesInsertCheck(call.uid, new) THEN "rls_violation"
            ELSE IF \/ new.receiver_id \notin Users
                    \/ ~(new.product_id = NULL \/ ProductExists(new.product_id))
            THEN "fk_violation"
            ELSE "sent"
    IN  /\ call.pc = "looked_up"
        /\ NewMessageId <= MaxMessages
        /\ call.conversation_id = NULL =>
               Cardinality(conversations) < MaxConversations
        /\ IF outcome = "sent"
           THEN /\ conversations' = after
                /\ messages' = messages \cup {new}
                /\ lastOp' = Result(new.id, outcome)
           ELSE /\ UNCHANGED <<conversations, messages>>
                /\ lastOp' = Result(NULL, outcome)
        /\ goc' = [goc EXCEPT ![s] = IdleGoc]
        /\ UNCHANGED <<products, wishlists, variable_conflict, browser,
                       order_items, ordering, objects, user_profiles, tw,
                       nearby>>

\* UPDATE messages SET is_read = .. WHERE the row is in rows: the statement
\* reaches the rows the caller may select and update, and the new row must
\* pass the policy as well.
UpdateIsRead(uid, rows, is_read) ==
    LET target == {r \in rows : MessagesSelectUsing(uid, r)
                                  /\ MessagesUpdateUsing(uid, r)}
        New(r) == [r EXCEPT !.is_read = is_read]
    IN  /\ lastOp' = [uid |-> uid, id |-> NULL,
                      outcome |-> IF target = {} THEN "no_rows" ELSE "updated"]
        /\ messages' = (messages \ target) \cup {New(r) : r \in target}
        /\ UNCHANGED <<products, conversations, wishlists, variable_conflict, browser,
                       goc, tw, nearby, order_items, ordering, objects,
                       user_profiles>>

\* UPDATE messages SET is_read = :is_read WHERE id = :id
UpdateMessage(uid, id, is_read) ==
    UpdateIsRead(uid, {r \in messages : r.id = id}, is_read)

\* markMessagesAsRead(senderId, productId) of part_008: getUser, then
\* update({is_read: true}).eq('sender_id', senderId).eq('receiver_id',
\* user.id), and .eq('product_id', productId) when productId is given.
markMessagesAsReadFrom(uid, senderId, productId) ==
    IF uid = NULL
    THEN /\ lastOp' = [uid |-> uid, id |-> NULL,
                       outcome |-> "not_authenticated"]
         /\ UNCHANGED <<products, conversations, wishlists, variable_conflict, browser,
                        goc, tw, nearby, order_items, ordering, messages,
                        objects, user_profiles>>
    ELSE UpdateIsRead(uid,
                      {r \in messages :
                          /\ r.sender_id = senderId
                          /\ r.receiver_id = uid
                          /\ productId # NULL => r.product_id = productId},
                      TRUE)

\* markMessagesAsRead(conversationId) of part_009: getUser, then
\* update({is_read: true}).eq('conversation_id', conversationId)
\* .eq('receiver_id', user.id).
markMessagesAsRead(uid, conversationId) ==
    IF uid = NULL
    THEN /\ lastOp' = [uid |-> uid, id |-> NULL,
                       outcome |-> "not_authenticated"]
         /\ UNCHANGED <<products, conversations, wishlists, variable_conflict, browser,
                        goc, tw, nearby, order_items, ordering, messages,
                        objects, user_profiles>>
    ELSE UpdateIsRead(uid,
                      {r \in messages :
                          /\ r.conversation_id = conversationId
                          /\ r.receiver_id = uid},
                      TRUE)

(***************************************************************************)
(* MessagesPage                                                            *)
(***************************************************************************)

\* MessagesPage not rendered: no tree, no request under way.  selected is
\* the set of the selected conversation, empty for null.
NoChat ==
    [mounted |-> FALSE, loading |-> FALSE, conversations |-> {},
     selected |-> {}, messages |-> <<>>, loads |-> <<>>, marks |-> {}]

\* getConversations() called by uid: the rows of conversations the caller may
\* see and takes part in, each with other_user.
getConversations(uid) ==
    {[id |-> c.id, product_id |-> c.product_id,
      other_user |-> IF c.user1_id = uid THEN c.user2_id ELSE c.user1_id] :
        c \in {r \in conversations :
                  /\ ConversationsSelectUsing(uid, r)
                  /\ r.user1_id = uid \/ r.user2_id = uid}}

RECURSIVE OrderAscending(_)
\* .order('created_at', { ascending: true }); ids grow with created_at.
OrderAscending(rows) ==
    IF rows = {} THEN <<>>
    ELSE LET first == CHOOSE r \in rows : \A q \in rows : r.id <= q.id
         IN  <<first>> \o OrderAscending(rows \ {first})

\* getMessages(otherUserId, productId) called by uid
getMessages(uid, otherUserId, productId) ==
    OrderAscending(
        {r \in messages :
            /\ MessagesSelectUsing(uid, r)
            /\ \/ r.sender_id = uid /\ r.receiver_id = otherUserId
               \/ r.sender_id = otherUserId /\ r.receiver_id = uid
            /\ productId # NULL => r.product_id = productId})

\* subscribeToMessages(otherUserId, productId, callback): its first
\* statement takes data.user out of the value of supabase.auth.getUser(),
\* which is a promise and has no data: the statement throws a TypeError and
\* no channel is opened.
subscribeToMessages(otherUserId, productId) == "TypeError"

\* The application is loaded and /messages opened by a logged-in user: the
\* page mounts with its initial state and its first effect calls
\* loadConversations.
OpenMessagesPage ==
    /\ ~chat.mounted
    /\ chat' = [NoChat EXCEPT !.mounted = TRUE, !.loading = TRUE]
    /\ UNCHANGED <<store, memOrders, notChat>>

\* The reply to getConversations: setConversations(data).  The page was
\* opened without ?user=, so no conversation is selected here.
loadConversations(uid) ==
    /\ chat.mounted /\ chat.loading
    /\ chat' = [chat EXCEPT !.loading = FALSE,
                            !.conversations = getConversations(uid)]
    /\ UNCHANGED <<store, memOrders, notChat>>

\* A click on a conversation of the list: setSelectedConversation, and the
\* effect of the render that follows: loadMessages() and markAsRead() send
\* their requests, then subscribeToMessages is called.  An error thrown by
\* an effect, with no error boundary in the tree, unmounts the tree.
selectConversation(c) ==
    /\ chat.mounted
    /\ c \in chat.conversations
    /\ c \notin chat.selected
    /\ chat' = [chat EXCEPT
                   !.selected = {c},
                   !.loads = Append(@, c),
                   !.marks = @ \cup {c},
                   !.mounted =
                       subscribeToMessages(c.other_user, c.product_id)
                           # "TypeError"]
    /\ UNCHANGED <<store, memOrders, notChat>>

\* The reply to the getMessages of loadMessages: setMessages(data), which
\* does nothing once the page is unmounted.
loadMessages(uid) ==
    /\ chat.loads # <<>>
    /\ LET c == Head(chat.loads)
       IN  chat' = [chat EXCEPT
                       !.loads = Tail(@),
                       !.messages =
                           IF chat.mounted
                           THEN getMessages(uid, c.other_user, c.product_id)
                           ELSE @]
    /\ UNCHANGED <<store, memOrders, notChat>>

\* The request of markAsRead reaches the store: markMessagesAsRead(
\* other_user.id, product_id) of part_008.
markAsRead(uid) ==
    \E c \in chat.marks :
        LET target == {r \in messages :
                          /\ r.sender_id = c.other_user
                          /\ r.receiver_id = uid
                          /\ c.product_id # NULL => r.product_id = c.product_id
                          /\ MessagesSelectUsing(uid, r)
                          /\ MessagesUpdateUsing(uid, r)}
        IN  /\ messages' = (messages \ target) \cup
                               {[r EXCEPT !.is_read = TRUE] : r \in target}
            /\ lastOp' = [uid |-> uid, id |-> NULL,
                          outcome |-> IF target = {} THEN "no_rows"
                                                     ELSE "updated"]
            /\ chat' = [chat EXCEPT !.marks = @ \ {c}]
            /\ UNCHANGED <<products, conversations, wishlists,
                           variable_conflict, goc, tw, nearby, orders,
                           order_items, returns, co, objects, user_profiles,
                           memOrders, notChat>>

(***************************************************************************)
(* storage.objects of bucket product-images and uploadProductImage         *)
(***************************************************************************)

\* An object's name is <<folder, file>>: the text of a user id, a slash and a
\* file name, as uploadProductImage builds it.
FileNames == 1 .. MaxFiles
Contents == {"a", "b"}

\* (storage.foldername(name))[1]
foldername1(name) == name[1]

\* "Product images are publicly viewable":
\* FOR SELECT USING (bucket_id = 'product-images'), for every role
ProductImagesArePubliclyViewable(uid, row) == row.bucket_id = "product-images"

\* "Authenticated users can upload product images":
\* FOR INSERT TO authenticated WITH CHECK (bucket_id = 'product-images')
AuthenticatedUsersCanUploadProductImages(uid, row) ==
    uid # NULL /\ row.bucket_id = "product-images"

\* "Users can update own product images": FOR UPDATE TO authenticated USING
\* (bucket_id = 'product-images'
\*  AND auth.uid()::text = (storage.foldername(name))[1])
UsersCanUpdateOwnProductImages(uid, row) ==
    uid # NULL /\ row.bucket_id = "product-images"
               /\ uid = foldername1(row.name)

\* "Users can delete own product images": FOR DELETE TO authenticated USING
\* (the same expression)
UsersCanDeleteOwnProductImages(uid, row) ==
    uid # NULL /\ row.bucket_id = "product-images"
               /\ uid = foldername1(row.name)

ObjectRow(name, owner, content) ==
    [bucket_id |-> "product-images", name |-> name, owner |-> owner,
     content |-> content]

ObjectExists(name) == \E o \in objects : o.name = name

\* storage.from('product-images').upload(name, file): INSERT INTO
\* storage.objects; an object of that name makes it fail.
UploadObject(uid, name, content) ==
    LET new == ObjectRow(name, uid, content)
    IN  /\ IF ~AuthenticatedUsersCanUploadProductImages(uid, new)
           THEN /\ lastOp' = [uid |-> uid, id |-> name,
                              outcome |-> "rls_violation"]
                /\ UNCHANGED objects
           ELSE IF ObjectExists(name)
           THEN /\ lastOp' = [uid |-> uid, id |-> name,
                              outcome |-> "duplicate"]
                /\ UNCHANGED objects
           ELSE /\ lastOp' = [uid |-> uid, id |-> name, outcome |-> "inserted"]
                /\ objects' = objects \cup {new}
        /\ UNCHANGED <<products, conversations, wishlists, variable_conflict, browser,
                       goc, tw, nearby, order_items, ordering, messages,
                       user_profiles>>

\* uploadProductImage(file, userId): the name is userId/Date.now().ext; the
\* function does not read the session.
uploadProductImage(uid, file, userId, now) ==
    UploadObject(uid, <<userId, now>>, file)

\* storage.from('product-images').update(name, file): UPDATE storage.objects
UpdateObject(uid, name, content) ==
    LET target == {o \in objects :
                      /\ o.name = name
                      /\ ProductImagesArePubliclyViewable(uid, o)
                      /\ UsersCanUpdateOwnProductImages(uid, o)}
    IN  /\ lastOp' = [uid |-> uid, id |-> name,
                      outcome |-> IF target = {} THEN "no_rows" ELSE "updated"]
        /\ objects' = (objects \ target)
                          \cup {[o EXCEPT !.content = content] : o \in target}
        /\ UNCHANGED <<products, conversations, wishlists, variable_conflict, browser,
                       goc, tw, nearby, order_items, ordering, messages,
                       user_profiles>>

\* storage.from('product-images').remove([name]): DELETE FROM storage.objects
DeleteObject(uid, name) ==
    LET target == {o \in objects :
                      /\ o.name = name
                      /\ ProductImagesArePubliclyViewable(uid, o)
                      /\ UsersCanDeleteOwnProductImages(uid, o)}
    IN  /\ lastOp' = [uid |-> uid, id |-> name,
                      outcome |-> IF target = {} THEN "no_rows" ELSE "deleted"]
        /\ objects' = objects \ target
        /\ UNCHANGED <<products, conversations, wishlists, variable_conflict, browser,
                       goc, tw, nearby, order_items, ordering, messages,
                       user_profiles>>

(***************************************************************************)
(* AuthContext, the product list of ProductContext and My Listings         *)
(***************************************************************************)

\* Texts are numbered.  Names: 1 John Doe, 2 Jane Smith, 3 Mike Johnson,
\* 4 Sarah Wilson, 5 David Brown, 6 Lisa Davis, 7 a name of no seeded
\* seller.  Emails: 1 john@example.com, 2 jane@example.com, 3 another
\* address.  Passwords: 1 password123, 2 another password.

\* The array AuthProvider declares in its body: every render of the provider
\* builds it again with these two accounts.
mockUsers ==
    <<[id |-> 1, name |-> 1, email |-> 1, password |-> 1],
      [id |-> 2, name |-> 2, email |-> 2, password |-> 1]>>

\* Array.prototype.find: the set of the first element that matches, empty
\* for undefined.
FindByEmail(users, email) ==
    LET hits == {i \in DOMAIN users : users[i].email = email}
    IN  {users[i] : i \in {j \in hits : \A k \in hits : j <= k}}

FindByLogin(users, email, password) ==
    LET hits == {i \in DOMAIN users :
                     users[i].email = email /\ users[i].password = password}
    IN  {users[i] : i \in {j \in hits : \A k \in hits : j <= k}}

\* What setUser is given: the account without its password.
SessionUser(u) == [id |-> u.id, name |-> u.name, email |-> u.email]

\* Date.now() at the start of the application, later than every seeded id.
Epoch == 10

\* login(email, password): the account found in this render's array becomes
\* the user; without one the call returns false and nothing changes.
login(email, password) ==
    /\ authUser' = IF FindByLogin(mockUsers, email, password) = {}
                   THEN authUser
                   ELSE {SessionUser(u) :
                             u \in FindByLogin(mockUsers, email, password)}
    /\ UNCHANGED <<store, memOrders, notAccount, memProducts, clock>>

\* register(name, email, password): an email of this render's array is
\* refused; otherwise the new account, whose id is Date.now(), is pushed to
\* this render's array and becomes the user.  setUser renders the provider
\* again, and that render's array holds the two seeded accounts only: the
\* pushed element is in no array a later call reads.
register(name, email, password) ==
    /\ clock < Epoch + MaxTicks
    /\ IF FindByEmail(mockUsers, email) # {}
       THEN UNCHANGED <<authUser, clock>>
       ELSE /\ clock' = clock + 1
            /\ LET newUser == [id |-> clock', name |-> name, email |-> email,
                               password |-> password]
                   pushed == Append(mockUsers, newUser)
               IN  authUser' = {SessionUser(pushed[Len(pushed)])}
    /\ UNCHANGED <<store, memOrders, notAccount, memProducts>>

\* logout()
logout ==
    /\ authUser' = {}
    /\ UNCHANGED <<store, memOrders, notAccount, memProducts, clock>>

\* The products ProductProvider starts with: their ids and sellers' names.
SeededProducts ==
    <<[id |-> 1, seller |-> 1], [id |-> 2, seller |-> 2],
      [id |-> 3, seller |-> 3], [id |-> 4, seller |-> 4],
      [id |-> 5, seller |-> 5], [id |-> 6, seller |-> 6]>>

\* addProduct(product): to the front of the list.
addProduct(product) == memProducts' = <<product>> \o memProducts

\* deleteProduct(id) of ProductContext:
\* prev.filter(product => product.id !== id)
deleteMemProduct(id) ==
    memProducts' = SelectSeq(memProducts, LAMBDA product : product.id # id)

\* handleSubmit of the post form, its fields valid: without a user the page
\* goes to the login; otherwise the new product, with id Date.now() and the
\* user's name as its seller, is added.
handleSubmit ==
    /\ authUser # {}
    /\ clock < Epoch + MaxTicks
    /\ clock' = clock + 1
    /\ \E u \in authUser : addProduct([id |-> clock', seller |-> u.name])
    /\ UNCHANGED <<store, memOrders, notAccount, authUser>>

\* My Listings: the products whose seller's name is the user's name.
userProducts ==
    SelectSeq(memProducts,
              LAMBDA product : \E u \in authUser : product.seller = u.name)

\* handleDelete(id), on the delete button of a product My Listings shows.
handleDelete(id) ==
    /\ \E i \in DOMAIN userProducts : userProducts[i].id = id
    /\ deleteMemProduct(id)
    /\ UNCHANGED <<store, memOrders, notAccount, authUser, clock>>

(***************************************************************************)
(* HomePage and the Advanced Filters panel (FilterComponent)               *)
(***************************************************************************)

\* Categories are numbered as the page lists them: 0 All, 1 Books,
\* 2 Electronics, 3 Furniture, 4 Services, 5 Clothing, 6 Sports.  Conditions:
\* 0 All, 1 New, 2 Like New, 3 Good, 4 Fair, 5 Poor.  Cities: 0 the empty
\* text, 1 a city; NULL is undefined.

\* HomePage as it mounts: every filter at its default, the panel closed.
\* panel is the set of the filters state of the mounted FilterComponent.
NoHome ==
    [selectedCategory |-> 0, selectedCondition |-> 0, cityFilter |-> 0,
     isFilterOpen |-> FALSE, panel |-> {}]

\* handleFilterChange(filters): setCityFilter(filters.city || '')
handleFilterChange(h, filters) ==
    [h EXCEPT !.selectedCategory = filters.category,
              !.selectedCondition = filters.condition,
              !.cityFilter = IF filters.city = NULL THEN 0 ELSE filters.city]

\* The effect of FilterComponent on [filters, onFilterChange]: HomePage hands
\* the panel a new handleFilterChange with every render, so after every
\* render of the page with the panel open the effect calls it with the
\* panel's filters.  The page it leaves renders to the same values, and the
\* next run of the effect changes nothing.
FilterEffect(h) ==
    IF h.panel = {} THEN h
    ELSE CHOOSE after \in {handleFilterChange(h, f) : f \in h.panel} : TRUE

\* A category button of the page: setSelectedCategory(category), the render
\* and the panel's effect.
setSelectedCategory(category) ==
    /\ home' = FilterEffect([home EXCEPT !.selectedCategory = category])
    /\ UNCHANGED <<store, memOrders, notHome>>

\* The Location input of the page: setCityFilter(e.target.value)
setCityFilter(city) ==
    /\ home' = FilterEffect([home EXCEPT !.cityFilter = city])
    /\ UNCHANGED <<store, memOrders, notHome>>

\* The Advanced Filters button: setIsFilterOpen(!isFilterOpen).  The panel
\* mounts with initialFilters, the page's values, as its filters; closing
\* unmounts it.
setIsFilterOpen ==
    /\ home' =
           IF home.isFilterOpen
           THEN [home EXCEPT !.isFilterOpen = FALSE, !.panel = {}]
           ELSE FilterEffect(
                    [home EXCEPT !.isFilterOpen = TRUE,
                                 !.panel = {[category |-> home.selectedCategory,
                                             condition |-> home.selectedCondition,
                                             city |-> home.cityFilter]}])
    /\ UNCHANGED <<store, memOrders, notHome>>

\* setFilters of the mounted panel, and the effect on the new filters.
setFilters(filters) ==
    /\ home.panel # {}
    /\ home' = FilterEffect([home EXCEPT !.panel = {filters}])
    /\ UNCHANGED <<store, memOrders, notHome>>

\* The quick tags Electronics and Books of the panel.
quickFilter(category) ==
    \E f \in home.panel : setFilters([f EXCEPT !.category = category])

\* The panel's condition select and its city input.
selectCondition(condition) ==
    \E f \in home.panel : setFilters([f EXCEPT !.condition = condition])

enterCity(city) ==
    \E f \in home.panel : setFilters([f EXCEPT !.city = city])

\* resetFilters: the new filters have a location and no city.
resetFilters == setFilters([category |-> 0, condition |-> 0, city |-> NULL])

(***************************************************************************)
(* Table user_profiles, sync_product_location and the view seller_stats    *)
(***************************************************************************)

\* user_role
UserRole == {"buyer", "seller", "both"}

\* The row handle_new_user inserts: role 'buyer', no location.  Texts (city,
\* state, pincode) are numbered.
NewProfile(id) ==
    [id |-> id, role |-> "buyer", city |-> NULL, state |-> NULL,
     pincode |-> NULL, latitude |-> NULL, longitude |-> NULL,
     location_point |-> NoPoint]

\* "Users can view own profile": FOR SELECT USING (auth.uid() = id)
UsersCanViewOwnProfile(uid, row) == uid = row.id

\* "Public profiles are viewable by everyone": FOR SELECT USING (true)
PublicProfilesAreViewableByEveryone(uid, row) == TRUE

\* "Users can update own profile": FOR UPDATE USING (auth.uid() = id)
UsersCanUpdateOwnProfile(uid, row) == uid = row.id

ProfilesSelectUsing(uid, row) ==
    /\ uid # NULL
    /\ \/ UsersCanViewOwnProfile(uid, row)
       \/ PublicProfilesAreViewableByEveryone(uid, row)

ProfilesUpdateUsing(uid, row) ==
    uid # NULL /\ UsersCanUpdateOwnProfile(uid, row)

\* The row with the columns of updates set: UPDATE ... SET of the columns
\* the request names.
Merge(old, updates) ==
    [c \in DOMAIN old |->
        IF c \in DOMAIN updates THEN updates[c] ELSE old[c]]

\* OLD.city IS DISTINCT FROM NEW.city OR ... OR
\* OLD.longitude IS DISTINCT FROM NEW.longitude
LocationIsDistinct(old, new) ==
    \/ old.city # new.city
    \/ old.state # new.state
    \/ old.pincode # new.pincode
    \/ old.latitude # new.latitude
    \/ old.longitude # new.longitude

MutantSyncEveryStatus(new, p) == p.seller_id = new.id

\* WHERE seller_id = NEW.id AND status = 'active'
SyncWhere(new, p) == p.seller_id = new.id /\ p.status = "active"

\* The SET list of the trigger's UPDATE, followed by the BEFORE UPDATE
\* trigger of products.
SyncedProduct(new, p) ==
    update_location_point(
        [p EXCEPT !.city = new.city, !.state = new.state,
                  !.pincode = new.pincode, !.latitude = new.latitude,
                  !.longitude = new.longitude,
                  !.location_point = new.location_point])

\* Trigger function sync_product_location (AFTER UPDATE ON user_profiles),
\* run for the caller uid: the products table it leaves.
sync_product_location(uid, old, new) ==
    IF LocationIsDistinct(old, new)
    THEN {IF /\ SyncWhere(new, p)
             /\ ProductsSelectUsing(uid, p)
             /\ ProductsUpdateUsing(uid, p)
          THEN SyncedProduct(new, p)
          ELSE p : p \in products}
    ELSE products

\* UPDATE user_profiles SET <the columns of updates> WHERE id = :id
UpdateProfile(uid, id, updates) ==
    LET old == user_profiles[id]
        new == update_location_point(Merge(old, updates))
    IN  /\ IF ~(ProfilesSelectUsing(uid, old) /\ ProfilesUpdateUsing(uid, old))
           THEN /\ lastOp' = [uid |-> uid, id |-> id, outcome |-> "no_rows"]
                /\ UNCHANGED <<user_profiles, products>>
           ELSE /\ lastOp' = [uid |-> uid, id |-> id, outcome |-> "updated"]
                /\ user_profiles' = [user_profiles EXCEPT ![id] = new]
                /\ products' = sync_product_location(uid, old, new)
        /\ UNCHANGED <<conversations, wishlists, variable_conflict, browser, goc, tw,
                       nearby, order_items, ordering, messages, objects>>

\* updateUserProfile(updates) of the data layer: getUser, then
\* update(updates).eq('id', user.id).
updateUserProfile(uid, updates) ==
    IF uid = NULL
    THEN /\ lastOp' = [uid |-> uid, id |-> NULL,
                       outcome |-> "not_authenticated"]
         /\ UNCHANGED <<products, conversations, wishlists, variable_conflict, browser,
                        goc, tw, nearby, order_items, ordering, messages,
                        objects, user_profiles>>
    ELSE UpdateProfile(uid, uid, updates)

\* updateUserLocation(location) of the data layer: getUser, then
\* update(location).eq('id', user.id); location holds city, state and
\* pincode, and latitude and longitude when they are known.
updateUserLocation(uid, location) ==
    IF uid = NULL
    THEN /\ lastOp' = [uid |-> uid, id |-> NULL,
                       outcome |-> "not_authenticated"]
         /\ UNCHANGED <<products, conversations, wishlists, variable_conflict, browser,
                        goc, tw, nearby, order_items, ordering, messages,
                        objects, user_profiles>>
    ELSE UpdateProfile(uid, uid, location)

\* updateProduct(id, {views}) of the data layer:
\* UPDATE products SET views = :views WHERE id = :id
updateProductViews(uid, id, views) ==
    LET target == {r \in products :
                      r.id = id /\ ProductsSelectUsing(uid, r)
                                /\ ProductsUpdateUsing(uid, r)}
        New(r) == update_location_point([r EXCEPT !.views = views])
    IN  /\ lastOp' = [uid |-> uid, id |-> id,
                      outcome |-> IF target = {} THEN "no_rows" ELSE "updated"]
        /\ products' = (products \ target) \cup {New(r) : r \in target}
        /\ UNCHANGED <<conversations, wishlists, variable_conflict, browser, goc, tw,
                       nearby, order_items, ordering, messages, objects,
                       user_profiles>>

\* The row of NULLs a LEFT JOIN gives a profile with no product.
NoProduct == [id |-> NULL, status |-> "null", views |-> NULL]

\* FROM user_profiles up LEFT JOIN products p ON up.id = p.seller_id
\* WHERE up.role IN ('seller', 'both'): pairs <<up, p>>.
SellerJoin ==
    {<<up, p>> \in {user_profiles[u] : u \in Users} \X (products \cup {NoProduct}) :
        /\ \/ p # NoProduct /\ up.id = p.seller_id
           \/ p = NoProduct /\ ~\E q \in products : up.id = q.seller_id
        /\ up.role \in {"seller", "both"}}

MutantCountStar(group) == Cardinality(group)

\* COUNT(p.id)
CountProducts(group) == Cardinality({j \in group : j[2].id # NULL})

\* COUNT(CASE WHEN p.status = :status THEN 1 END)
CountStatus(group, status) ==
    Cardinality({j \in group : j[2].id # NULL /\ j[2].status = status})

RECURSIVE SumViews(_)
\* The sum AVG divides: NULL views are left out.
SumViews(group) ==
    IF group = {} THEN 0
    ELSE LET j == CHOOSE x \in group : TRUE
         IN  (IF j[2].views = NULL THEN 0 ELSE j[2].views)
                 + SumViews(group \ {j})

\* COALESCE(AVG(p.views), 0), as the fraction num / den.
AvgViews(group) ==
    LET counted == {j \in group : j[2].views # NULL}
    IN  IF counted = {} THEN [num |-> 0, den |-> 1]
        ELSE [num |-> SumViews(counted), den |-> Cardinality(counted)]

\* The view seller_stats: one row per group of GROUP BY up.id, ...
seller_stats ==
    {LET group == {j \in SellerJoin : j[1].id = id}
     IN  [id |-> id,
          total_products |-> CountProducts(group),
          active_products |-> CountStatus(group, "active"),
          sold_products |-> CountStatus(group, "sold"),
          avg_views |-> AvgViews(group)] :
        id \in {j[1].id : j \in SellerJoin}}

(***************************************************************************)
(* History variables                                                       *)
(***************************************************************************)

NoCall ==
    [user1_id |-> NULL, user2_id |-> NULL, product_id |-> NULL, id |-> NULL,
     outcome |-> "none", n |-> -1]

\* The record of a get_or_create_conversation call that has just ended with
\* result: its arguments, the id it returned and how it ended.  n alternates
\* so that two calls in a row always differ.
CallRecord(user1_id, user2_id, product_id, result) ==
    [user1_id |-> user1_id, user2_id |-> user2_id, product_id |-> product_id,
     id |-> result.id, outcome |-> result.outcome,
     n |-> IF gocHist.n = 0 THEN 1 ELSE 0]

\* gocRace[t] holds when the call of session t stands between its lookup and
\* its insert and the call of session s, for the same participants and
\* scope, has inserted a thread in this step.
Overtaken(s, t) ==
    /\ t # s
    /\ goc[t].pc = "looked_up"
    /\ conversations' # conversations
    /\ ordered_user1(goc[t].user1_id, goc[t].user2_id)
           = ordered_user1(goc[s].user1_id, goc[s].user2_id)
    /\ ordered_user2(goc[t].user1_id, goc[t].user2_id)
           = ordered_user2(goc[s].user1_id, goc[s].user2_id)
    /\ goc[t].product_id = goc[s].product_id

NoRace == [s \in Sessions |-> FALSE]

NoHist == [uid |-> NULL, product_id |-> NULL, before |-> FALSE, n |-> -1]

\* twHist follows the toggle_wishlist calls made one after the other on one
\* (user, product) with nothing else touching it: before is the membership
\* when the first call started, n the number of calls that have ended.
HistOn(user, product) ==
    twHist.n >= 0 /\ twHist.uid = user /\ twHist.product_id = product

HistAfterCheck(uid, product_uuid) ==
    IF uid = NULL THEN twHist
    ELSE IF HistOn(uid, product_uuid) /\ twHist.n = 1 THEN twHist
    ELSE [uid |-> uid, product_id |-> product_uuid,
          before |-> InWishlist(wishlists, uid, product_uuid), n |-> 0]

HistAfterWrite(call) ==
    IF HistOn(call.user_uuid, call.product_uuid)
    THEN [twHist EXCEPT !.n = twHist.n + 1]
    ELSE twHist

HistAfterDelete(id) ==
    IF twHist.n >= 0 /\ twHist.product_id = id /\ products' # products
    THEN NoHist
    ELSE twHist

(***************************************************************************)
(* Specifications                                                          *)
(***************************************************************************)

Prices == {0, 1}
Scopes == ProductIds \cup {NULL}
Limits == 0 .. MaxLimit
Modes == {"error", "use_variable", "use_column"}

\* The catalogue with the given products, no call in progress, no request
\* made.
Catalog(rows, modes) ==
    /\ products \in rows
    /\ conversations = {}
    /\ wishlists = {}
    /\ variable_conflict \in modes
    /\ goc = [s \in Sessions |-> IdleGoc]
    /\ tw = [s \in Sessions |-> IdleToggle]
    /\ lastOp = NoOp
    /\ nearby = NoQuery
    /\ gocHist = NoCall
    /\ gocRace = NoRace
    /\ twHist = NoHist
    /\ selections = <<>>
    /\ postedBy = {}
    /\ registered = {}
    /\ picked = {}

\* No order placed, no return requested, no createOrder call in progress;
\* the browser holds the order it starts with.
NoOrders ==
    /\ orders = {}
    /\ order_items = {}
    /\ returns = {}
    /\ co = IdleOrder
    /\ memOrders = SeededOrders

\* No message sent, no object stored, the profiles as handle_new_user
\* creates them; the browser as the application starts: an empty cart, a
\* product page open.
NoOthers ==
    /\ messages = {}
    /\ objects = {}
    /\ user_profiles = [u \in Users |-> NewProfile(u)]
    /\ cart = <<>>
    /\ route = "product"
    /\ checkout = NoCheckout
    /\ timeouts = <<>>
    /\ chat = NoChat
    /\ authUser = {}
    /\ memProducts = SeededProducts
    /\ clock = Epoch
    /\ home = NoHome

\* The store with the given products and every other table empty.
Store(rows, modes) == Catalog(rows, modes) /\ NoOrders /\ NoOthers

\* The store after the migrations: empty tables.
Init == Store({{}}, Modes)

ProductsNext ==
    \/ \E uid \in Callers, id \in ProductIds, seller \in Users,
          status \in ProductStatus, price \in Prices :
           InsertProduct(uid, id, seller, status, price) /\ UNCHANGED hist
    \/ \E uid \in Callers, id \in ProductIds, seller \in Users,
          status \in ProductStatus, price \in Prices :
           updateProduct(uid, id, seller, status, price) /\ UNCHANGED hist
    \/ \E uid \in Callers, id \in ProductIds :
           deleteProduct(uid, id) /\ UNCHANGED hist

ConversationsNext ==
    \/ \E uid \in Callers, u1 \in Users, u2 \in Users, p \in Scopes :
           InsertConversation(uid, u1, u2, p) /\ UNCHANGED hist
    \/ \E s \in Sessions, u1 \in Users, u2 \in Users, p \in Scopes :
           GocLookup(s, u1, u1, u2, p) /\ UNCHANGED hist
    \/ \E s \in Sessions : GocInsertOrReturn(s) /\ UNCHANGED hist

WishlistNext ==
    \/ \E s \in Sessions, uid \in Callers, p \in ProductIds :
           ToggleCheck(s, uid, p) /\ UNCHANGED hist
    \/ \E s \in Sessions : ToggleWrite(s) /\ UNCHANGED hist

NearbyNext ==
    \/ \E uid \in Callers, lat \in QueryCoords, lon \in QueryCoords,
          radius \in Radii, limit \in Limits :
           RpcGetNearbyProducts(uid, lat, lon, radius, limit) /\ UNCHANGED hist
    \/ \E uid \in Callers, lat \in QueryCoords, lon \in QueryCoords,
          radius \in Radii, limit \in Limits :
           getNearbyProducts(uid, lat, lon, radius, limit) /\ UNCHANGED hist
    \/ NearbyReturn /\ UNCHANGED hist

Next == ProductsNext \/ ConversationsNext \/ WishlistNext \/ NearbyNext

Spec == Init /\ [][Next]_vars

\* The products table and the requests on it.
InitProducts == Store({{}}, {"error"})

SpecProducts == InitProducts /\ [][ProductsNext]_vars

\* Product 1 is listed by user 1.
Listed1 == {{ProductRow(1, 1, "active", 1, 1, NULL, NULL)}}

InitConversations == Store(Listed1, Modes)

\* Conversations, created by direct inserts and by get_or_create_conversation
\* calls that overlap; gocRace follows the calls that were overtaken.
RaceLookup ==
    \E s \in Sessions, u1 \in Users, p \in {NULL} \cup {r.id : r \in products} :
        \E u2 \in Users \ {u1} : GocLookup(s, u1, u1, u2, p) /\ UNCHANGED hist

RaceInsertOrReturn ==
    \E s \in Sessions :
        /\ GocInsertOrReturn(s)
        /\ gocRace' = [t \in Sessions |->
                          IF t = s THEN FALSE
                          ELSE gocRace[t] \/ Overtaken(s, t)]
        /\ UNCHANGED <<gocHist, twHist, pageHist>>

RaceInsert ==
    \E uid \in Users, u1 \in Users, u2 \in Users, p \in Scopes :
        InsertConversation(uid, u1, u2, p) /\ UNCHANGED hist

ConversationsRaceNext == RaceLookup \/ RaceInsertOrReturn \/ RaceInsert

SpecConversations == InitConversations /\ [][ConversationsRaceNext]_vars

\* Conversations, with get_or_create_conversation calls and direct inserts
\* made one after the other; gocHist holds the call that ended last, if
\* nothing came after it.
SeqLookup ==
    \E u1 \in Users, p \in {NULL} \cup {r.id : r \in products} :
      \E u2 \in Users \ {u1} :
        /\ GocLookup("s1", u1, u1, u2, p)
        /\ gocHist' = IF goc'["s1"].pc = "idle"
                      THEN CallRecord(u1, u2, p, lastOp')
                      ELSE gocHist
        /\ UNCHANGED <<gocRace, twHist, pageHist>>

SeqInsertOrReturn ==
    /\ GocInsertOrReturn("s1")
    /\ gocHist' = CallRecord(goc["s1"].user1_id, goc["s1"].user2_id,
                             goc["s1"].product_id, lastOp')
    /\ UNCHANGED <<gocRace, twHist, pageHist>>

SeqInsert ==
    \E uid \in Users, u1 \in Users, u2 \in Users, p \in Scopes :
        /\ goc["s1"].pc = "idle"
        /\ InsertConversation(uid, u1, u2, p)
        /\ gocHist' = NoCall
        /\ UNCHANGED <<gocRace, twHist, pageHist>>

ConversationsSeqNext == SeqLookup \/ SeqInsertOrReturn \/ SeqInsert

SpecConversationsSeq == InitConversations /\ [][ConversationsSeqNext]_vars

\* Every product is listed by user 1.
AllListed ==
    {{ProductRow(id, 1, "active", 1, 1, NULL, NULL) : id \in ProductIds}}

InitWishlist == Store(AllListed, {"error"})

\* toggle_wishlist calls from several sessions, and products being deleted
\* under them.
WishlistDelete ==
    \E id \in ProductIds : deleteProduct(1, id) /\ UNCHANGED hist

WishlistRaceNext == WishlistNext \/ WishlistDelete

SpecWishlist == InitWishlist /\ [][WishlistRaceNext]_vars

\* toggle_wishlist calls made one after the other; twHist follows them.
SeqToggleCheck ==
    \E uid \in Callers, p \in ProductIds :
        /\ ToggleCheck("s1", uid, p)
        /\ twHist' = HistAfterCheck(uid, p)
        /\ UNCHANGED <<gocHist, gocRace, pageHist>>

SeqToggleWrite ==
    /\ ToggleWrite("s1")
    /\ twHist' = HistAfterWrite(tw["s1"])
    /\ UNCHANGED <<gocHist, gocRace, pageHist>>

SeqDelete ==
    \E id \in ProductIds :
        /\ deleteProduct(1, id)
        /\ twHist' = HistAfterDelete(id)
        /\ UNCHANGED <<gocHist, gocRace, pageHist>>

WishlistSeqNext == SeqToggleCheck \/ SeqToggleWrite \/ SeqDelete

SpecWishlistSeq == InitWishlist /\ [][WishlistSeqNext]_vars

\* A products table as inserts and updates leave it (location_point set by
\* the trigger), and nearby-products queries on it.
NearbyProductTables ==
    UNION {{{update_location_point(
                 ProductRow(id, 1, f[id][1], 1, f[id][2], f[id][3][1],
                            f[id][3][2])) : id \in 1 .. n} :
               f \in [1 .. n -> {"active", "sold"} \X Times \X ProductPlaces]} :
           n \in 0 .. MaxProducts}

InitNearby == Store(NearbyProductTables, {"error"})

SpecNearby == InitNearby /\ [][NearbyNext]_vars

\* Orders and their items: products being listed, repriced and removed,
\* orders placed through createOrder and through the data API, and requests
\* to change or remove order items.
Amounts == {0, 1, 2}
Quantities == {0, 1}
ItemInputs ==
    [product_id : ProductIds, quantity : Quantities, unit_price : Prices,
     total_price : Amounts]
ItemLists == UNION {[1 .. n -> ItemInputs] : n \in 0 .. MaxOrderItems}
SingleItems == [1 .. 1 -> ItemInputs]
OrderStatusInputs == {"pending", "delivered"}

InitOrders == Store({{}}, {"error"})

OrdersNext ==
    \/ \E uid \in Users, id \in ProductIds, price \in Prices :
           InsertProduct(uid, id, uid, "active", price) /\ UNCHANGED hist
    \/ \E uid \in Users, id \in ProductIds, price \in Prices :
           updateProduct(uid, id, uid, "active", price) /\ UNCHANGED hist
    \/ \E uid \in Users, id \in ProductIds :
           deleteProduct(uid, id) /\ UNCHANGED hist
    \/ \E uid \in Callers, buyer \in Users, seller \in Users,
          total \in Amounts :
           InsertOrder(uid, buyer, seller, total) /\ UNCHANGED hist
    \/ \E uid \in Users, id \in OrderIds, total \in Amounts,
          status \in OrderStatusInputs :
           UpdateOrder(uid, id, total, status) /\ UNCHANGED hist
    \/ \E uid \in Users, order \in OrderIds, items \in SingleItems :
           InsertOrderItems(uid, order, items) /\ UNCHANGED hist
    \/ \E uid \in Users, id \in OrderItemIds, q \in Quantities,
          u \in Prices, t \in Amounts :
           UpdateOrderItem(uid, id, q, u, t) /\ UNCHANGED hist
    \/ \E uid \in Users, id \in OrderItemIds :
           DeleteOrderItem(uid, id) /\ UNCHANGED hist
    \/ \E uid \in Callers, seller \in Users, total \in Amounts :
           CreateOrderInsertOrder(uid, seller, total) /\ UNCHANGED hist
    \/ \E items \in ItemLists :
           CreateOrderInsertItems(items) /\ UNCHANGED hist

SpecOrders == InitOrders /\ [][OrdersNext]_vars

\* Checkout: createOrder of the data layer on listed products, and
\* createOrder of the browser on the cart CheckoutPage hands it.
CartItems == [price : {1, 2}, quantity : {1, 2}]
CartLists == UNION {[1 .. n -> CartItems] : n \in 1 .. MaxCartItems}

\* The browser's order list is followed up to this length here.
MaxCheckoutOrders == 2

InitCheckout == Store(AllListed, {"error"})

CheckoutNext ==
    \/ \E uid \in Callers, seller \in Users, total \in Amounts :
           CreateOrderInsertOrder(uid, seller, total) /\ UNCHANGED hist
    \/ \E items \in ItemLists :
           CreateOrderInsertItems(items) /\ UNCHANGED hist
    \/ \E items \in CartLists :
           /\ Len(memOrders) < MaxCheckoutOrders
           /\ createOrder(items)
           /\ UNCHANGED hist

SpecCheckout == InitCheckout /\ [][CheckoutNext]_vars

\* Messaging: threads opened through the data API, messages inserted,
\* their read flag updated, and the two markMessagesAsRead of the client.
InitMessages == Store(Listed1, {"error"})

MessagesNext ==
    \/ \E uid \in Users, u1 \in Users, u2 \in Users :
           InsertConversation(uid, u1, u2, NULL) /\ UNCHANGED hist
    \/ \E uid \in Callers, c \in 1 .. MaxConversations, sender \in Users,
          receiver \in Users, p \in {NULL, 1} :
           InsertMessage(uid, c, sender, receiver, p) /\ UNCHANGED hist
    \/ \E uid \in Callers, receiver \in Users, p \in {NULL, 1} :
           sendMessage(uid, receiver, p) /\ UNCHANGED hist
    \/ \E uid \in Callers, id \in 1 .. MaxMessages, is_read \in BOOLEAN :
           UpdateMessage(uid, id, is_read) /\ UNCHANGED hist
    \/ \E uid \in Callers, sender \in Users, p \in {NULL, 1} :
           markMessagesAsReadFrom(uid, sender, p) /\ UNCHANGED hist
    \/ \E uid \in Callers, c \in 1 .. MaxConversations :
           markMessagesAsRead(uid, c) /\ UNCHANGED hist

SpecMessages == InitMessages /\ [][MessagesNext]_vars

\* Storage: uploads through uploadProductImage, and updates and removals of
\* objects through the storage API.
ObjectNames == Users \X FileNames

InitStorage == Store({{}}, {"error"})

StorageNext ==
    \/ \E uid \in Callers, file \in Contents, userId \in Users,
          now \in FileNames :
           uploadProductImage(uid, file, userId, now) /\ UNCHANGED hist
    \/ \E uid \in Callers, name \in ObjectNames, file \in Contents :
           UpdateObject(uid, name, file) /\ UNCHANGED hist
    \/ \E uid \in Callers, name \in ObjectNames :
           DeleteObject(uid, name) /\ UNCHANGED hist

SpecStorage == InitStorage /\ [][StorageNext]_vars

\* Returns: orders placed and moved between pending and delivered by their
\* seller, and return requests through createReturn and the data API.
InitReturns == Store({{}}, {"error"})

ReturnsNext ==
    \/ \E uid \in Users, seller \in Users :
           InsertOrder(uid, uid, seller, 1) /\ UNCHANGED hist
    \/ \E uid \in Users, id \in OrderIds, status \in OrderStatusInputs :
           UpdateOrder(uid, id, 1, status) /\ UNCHANGED hist
    \/ \E uid \in Callers, order \in OrderIds, seller \in Users :
           createReturn(uid, order, seller) /\ UNCHANGED hist
    \/ \E uid \in Callers, order \in OrderIds, buyer \in Users,
          seller \in Users :
           InsertReturn(uid, order, buyer, seller) /\ UNCHANGED hist

SpecReturns == InitReturns /\ [][ReturnsNext]_vars

\* Locations: products being listed by both users, and the profile of user 1
\* updated through updateUserProfile, updateUserLocation and, by user 2,
\* through the data API.
LocationColumns == {"city", "state", "pincode", "latitude", "longitude"}
LocationValues == {NULL, 1}
AnyUpdates == UNION {[S -> LocationValues] : S \in SUBSET LocationColumns}
\* Requests that set at most two columns.
ProfileUpdates == {u \in AnyUpdates : Cardinality(DOMAIN u) <= 2}
LocationInputs ==
    {u \in AnyUpdates :
        /\ {"city", "state", "pincode"} \subseteq DOMAIN u
        /\ u.city # NULL /\ u.state # NULL /\ u.pincode # NULL}

InitLocations == Store({{}}, {"error"})

LocationsNext ==
    \/ \E uid \in Users, id \in ProductIds, status \in ProductStatus :
           InsertProduct(uid, id, uid, status, 1) /\ UNCHANGED hist
    \/ \E uid \in {1, NULL}, updates \in ProfileUpdates :
           updateUserProfile(uid, updates) /\ UNCHANGED hist
    \/ \E uid \in {1, NULL}, location \in LocationInputs :
           updateUserLocation(uid, location) /\ UNCHANGED hist
    \/ \E updates \in ProfileUpdates :
           UpdateProfile(2, 1, updates) /\ UNCHANGED hist

SpecLocations == InitLocations /\ [][LocationsNext]_vars

\* Seller statistics: products listed, changed, viewed and removed, and
\* users changing their role.
ViewCounts == {NULL, 0, 1}

InitSellerStats == Store({{}}, {"error"})

SellerStatsNext ==
    \/ \E uid \in Users, id \in ProductIds, status \in ProductStatus :
           InsertProduct(uid, id, uid, status, 1) /\ UNCHANGED hist
    \/ \E uid \in Users, id \in ProductIds, status \in ProductStatus :
           updateProduct(uid, id, uid, status, 1) /\ UNCHANGED hist
    \/ \E uid \in Users, id \in ProductIds, views \in ViewCounts :
           updateProductViews(uid, id, views) /\ UNCHANGED hist
    \/ \E uid \in Users, id \in ProductIds :
           deleteProduct(uid, id) /\ UNCHANGED hist
    \/ \E uid \in Callers, role \in UserRole :
           updateUserProfile(uid, [role |-> role]) /\ UNCHANGED hist

SpecSellerStats == InitSellerStats /\ [][SellerStatsNext]_vars

\* The write operations of the data layer, called with and without a
\* session.
InitDataLayer == Store({{}}, {"error"})

\* The caller of the data layer: user 1, or nobody.
Visitors == {1, NULL}

DataLayerNext ==
    \/ \E uid \in Visitors, id \in ProductIds, price \in Prices :
           createProduct(uid, id, price) /\ UNCHANGED hist
    \/ \E uid \in Visitors, p \in ProductIds :
           ToggleCheck("s1", uid, p) /\ UNCHANGED hist
    \/ ToggleWrite("s1") /\ UNCHANGED hist
    \/ \E uid \in Visitors, total \in Amounts :
           CreateOrderInsertOrder(uid, 2, total) /\ UNCHANGED hist
    \/ \E p \in ProductIds :
           CreateOrderInsertItems(<<[product_id |-> p, quantity |-> 1,
                                     unit_price |-> 1, total_price |-> 1]>>)
           /\ UNCHANGED hist
    \/ \E uid \in Visitors, p \in Scopes :
           sendMessage(uid, 2, p) /\ UNCHANGED hist
    \/ \E uid \in Visitors, order \in OrderIds :
           createReturn(uid, order, 2) /\ UNCHANGED hist
    \/ \E uid \in Visitors, location \in LocationInputs :
           updateUserLocation(uid, location) /\ UNCHANGED hist

SpecDataLayer == InitDataLayer /\ [][DataLayerNext]_vars

\* The checkout of the browser: Buy Now on products, Place Order, the
\* delayed completion, and leaving the page.
InitPlaceOrder == Store({{}}, {"error"})

PlaceOrderNext ==
    \/ \E price \in {1, 2} : handleBuyNow(price) /\ UNCHANGED hist
    \/ OpenProduct /\ UNCHANGED hist
    \/ BackToCart /\ UNCHANGED hist
    \/ handlePlaceOrder /\ UNCHANGED hist
    \/ PlaceOrderTimeout /\ UNCHANGED hist

SpecPlaceOrder == InitPlaceOrder /\ [][PlaceOrderNext]_vars

\* The two ways the client sends a message, on a store with one listed
\* product, under each setting of plpgsql.variable_conflict.
InitSendMessage == Store(Listed1, Modes)

SendMessageNext ==
    \/ \E uid \in Callers, receiver \in Users, p \in {NULL, 1} :
           sendMessage(uid, receiver, p) /\ UNCHANGED hist
    \/ \E uid \in Callers, receiver \in Users, p \in {NULL, 1} :
           sendMessageRpc("s1", uid, receiver, p) /\ UNCHANGED hist
    \/ send_message("s1") /\ UNCHANGED hist

SpecSendMessage == InitSendMessage /\ [][SendMessageNext]_vars

\* The messages page of user 1: conversations and messages come into the
\* store through the data API, the page is opened (again after the tree was
\* unmounted, by loading the application anew), conversations are selected.
MaxSelections == 2

InitChat == Store(Listed1, {"error"})

ChatNext ==
    \/ \E uid \in Users, p \in {NULL, 1} :
           InsertConversation(uid, 1, 2, p) /\ UNCHANGED hist
    \/ \E uid \in Users, c \in 1 .. MaxConversations, receiver \in Users,
          p \in {NULL, 1} :
           InsertMessage(uid, c, uid, receiver, p) /\ UNCHANGED hist
    \/ OpenMessagesPage /\ UNCHANGED hist
    \/ loadConversations(1) /\ UNCHANGED hist
    \/ \E c \in chat.conversations :
           /\ Len(selections) < MaxSelections
           /\ selectConversation(c)
           /\ selections' = Append(selections, c.id)
           /\ UNCHANGED <<gocHist, gocRace, twHist, postedBy, registered, picked>>
    \/ loadMessages(1) /\ UNCHANGED hist
    \/ markAsRead(1) /\ UNCHANGED hist

SpecChat == InitChat /\ [][ChatNext]_vars

\* The replies to the page's requests arrive, and its updates reach the
\* store.
SpecChatFair ==
    /\ SpecChat
    /\ WF_vars(loadConversations(1) /\ UNCHANGED hist)
    /\ WF_vars(loadMessages(1) /\ UNCHANGED hist)
    /\ WF_vars(markAsRead(1) /\ UNCHANGED hist)

\* createOrder of the data layer only, on listed products: calls in any
\* number, with any items.
InitCreateOrder == Store(AllListed, {"error"})

CreateOrderNext ==
    \/ \E uid \in Callers, seller \in Users, total \in Amounts :
           CreateOrderInsertOrder(uid, seller, total) /\ UNCHANGED hist
    \/ \E items \in ItemLists :
           CreateOrderInsertItems(items) /\ UNCHANGED hist

SpecCreateOrder == InitCreateOrder /\ [][CreateOrderNext]_vars

\* The accounts and the product list of one application session: register,
\* login, logout, post and delete in any order.  Registration is offered the
\* name of a seeded account and a new one, a seeded email and a new one.
InitAccounts == Store({{}}, {"error"})

AccountsNext ==
    \/ \E name \in {1, 7}, email \in {1, 3}, password \in {1, 2} :
           /\ register(name, email, password)
           /\ registered' =
                  IF clock' = clock THEN registered
                  ELSE registered \cup
                           {[id |-> clock', name |-> name, email |-> email,
                             password |-> password]}
           /\ UNCHANGED <<gocHist, gocRace, twHist, selections, postedBy, picked>>
    \/ \E email \in {1, 2, 3}, password \in {1, 2} :
           login(email, password) /\ UNCHANGED hist
    \/ logout /\ UNCHANGED hist
    \/ /\ handleSubmit
       /\ postedBy' =
              postedBy \cup {[product |-> clock', account |-> u.id] :
                                 u \in authUser}
       /\ UNCHANGED <<gocHist, gocRace, twHist, selections, registered,
                    picked>>
    \/ \E id \in 1 .. Epoch + MaxTicks : handleDelete(id) /\ UNCHANGED hist

SpecAccounts == InitAccounts /\ [][AccountsNext]_vars

\* The home page: the user clicks category buttons, types a location, opens
\* and closes the panel and uses the panel's controls, in any order.
InitHome == Store({{}}, {"error"})

HomeNext ==
    \/ \E category \in 0 .. 6 :
           /\ setSelectedCategory(category)
           /\ picked' = {category}
           /\ UNCHANGED <<gocHist, gocRace, twHist, selections, postedBy,
                          registered>>
    \/ \E city \in {0, 1} : setCityFilter(city) /\ UNCHANGED hist
    \/ setIsFilterOpen /\ UNCHANGED hist
    \/ \E category \in {1, 2} :
           /\ quickFilter(category)
           /\ picked' = {category}
           /\ UNCHANGED <<gocHist, gocRace, twHist, selections, postedBy,
                          registered>>
    \/ \E condition \in 0 .. 5 : selectCondition(condition) /\ UNCHANGED hist
    \/ \E city \in {0, 1} : enterCity(city) /\ UNCHANGED hist
    \/ /\ resetFilters
       /\ picked' = {0}
       /\ UNCHANGED <<gocHist, gocRace, twHist, selections, postedBy,
                      registered>>

SpecHome == InitHome /\ [][HomeNext]_vars

(***************************************************************************)
(* Properties                                                              *)
(***************************************************************************)

\* The threads of rows between a and b, in either column order, with product
\* scope p (NULL for none).
PairThreads(rows, a, b, p) ==
    {c \in rows : /\ {c.user1_id, c.user2_id} = {a, b}
                  /\ c.product_id = p}

\* The products the caller of the last nearby query can read and that are
\* active.
ReadableActive ==
    {p \in products : ProductsSelectUsing(nearby.uid, p) /\ p.status = "active"}

\* The product a result row was taken from.
ProductOf(row) == CHOOSE p \in products : p.id = row.id

\* C1: a request by a user who is not a row's seller (or by nobody) neither
\* changes nor removes that product row, and every product row a request
\* inserts or rewrites carries the requester as its seller_id.  lastOp'.uid
\* is the requester of the step.
C1_OnlySellerMutates ==
    [][/\ \A r \in products : r.seller_id # lastOp'.uid => r \in products'
       /\ \A r \in products' \ products : r.seller_id = lastOp'.uid]_vars

\* A signed-in user has aimed an update or a delete at another seller's
\* product, and the row is still there.
C1_Witness ==
    /\ lastOp.outcome = "no_rows"
    /\ lastOp.uid \in Users
    /\ \E r \in products : r.id = lastOp.id /\ r.seller_id # lastOp.uid

\* C2: when get_or_create_conversation(A, B, p) and then
\* get_or_create_conversation(B, A, p) are called one after the other, both
\* return, they return the same conversation id, and at most one conversation
\* row exists for the pair and scope afterwards.
C2_MirroredCallsAgree ==
    [][(/\ gocHist.n # -1
        /\ gocHist'.n # -1
        /\ gocHist'.n # gocHist.n
        /\ gocHist'.user1_id = gocHist.user2_id
        /\ gocHist'.user2_id = gocHist.user1_id
        /\ gocHist'.product_id = gocHist.product_id)
       => /\ gocHist.outcome = "returned"
          /\ gocHist'.outcome = "returned"
          /\ gocHist'.id = gocHist.id
          /\ Cardinality(PairThreads(conversations', gocHist'.user1_id,
                                     gocHist'.user2_id,
                                     gocHist'.product_id)) <= 1]_vars

\* C3: every conversation row stores its participants in sorted order,
\* user1_id smaller than user2_id.
C3_CanonicalOrder == \A c \in conversations : c.user1_id < c.user2_id

\* C4: every get_or_create_conversation(A, B, p) call returns the id of a
\* conversation whose participants are A and B and whose product scope is p,
\* and it inserts a row only when no thread of that pair and scope existed.
C4_ReturnsThreadOfPairAndScope ==
    [][(gocHist'.n # -1 /\ gocHist'.n # gocHist.n)
       => /\ gocHist'.outcome = "returned"
          /\ \E c \in conversations' :
                 /\ c.id = gocHist'.id
                 /\ {c.user1_id, c.user2_id}
                        = {gocHist'.user1_id, gocHist'.user2_id}
                 /\ c.product_id = gocHist'.product_id
          /\ conversations' # conversations
                 => PairThreads(conversations, gocHist'.user1_id,
                                gocHist'.user2_id, gocHist'.product_id) = {}]_vars

C6_TwoTogglesRestore ==
    twHist.n = 2
        => (WishlistRows(wishlists, twHist.uid, twHist.product_id) # {})
               = twHist.before

\* Two calls in a row have ended on a pair that was in the wishlist: the
\* first removed it, the second has put it back.
C6_Witness ==
    /\ twHist.n = 2
    /\ twHist.before
    /\ lastOp.outcome = "returned_true"

\* C7: the second statement of toggle_wishlist(P) by U, when the existence
\* check found (U, P), removes the row and returns false; when the check
\* found nothing, it inserts the row and returns true, or raises and changes
\* nothing; whenever it returns, the boolean is the membership of (U, P)
\* right after the call; the rows of every other user or product are as
\* they were.
C7_ToggleIsFunctional ==
    [][\A s \in Sessions :
           (tw[s].pc = "checked" /\ tw'[s].pc = "idle")
           => LET U == tw[s].user_uuid
                  P == tw[s].product_uuid
                  after == WishlistRows(wishlists', U, P) # {}
                  returned == lastOp'.outcome \in {"returned_true",
                                                   "returned_false"}
              IN  /\ tw[s].wishlist_exists
                         => lastOp'.outcome = "returned_false" /\ ~after
                  /\ (~tw[s].wishlist_exists /\ returned)
                         => lastOp'.outcome = "returned_true" /\ after
                  /\ returned => ((lastOp'.outcome = "returned_true") = after)
                  /\ ~returned => wishlists' = wishlists
                  /\ \A w \in wishlists \cup wishlists' :
                         (w.user_id # U \/ w.product_id # P)
                             => (w \in wishlists /\ w \in wishlists')]_vars

\* A call has removed its pair and returned false while the wishlists table
\* holds rows of other pairs.
C7_Witness ==
    /\ lastOp.outcome = "returned_false"
    /\ WishlistRows(wishlists, lastOp.uid, lastOp.id) = {}
    /\ wishlists # {}

\* C8: the wishlists table never holds two rows for one (user, product).
C8_OneRowPerPair ==
    \A u \in Users, p \in ProductIds :
        Cardinality(WishlistRows(wishlists, u, p)) <= 1

\* Two calls for one pair both found it absent; the first insert is in the
\* table and the second has been refused by the uniqueness constraint.
C8_Witness ==
    /\ lastOp.outcome = "unique_violation"
    /\ WishlistRows(wishlists, lastOp.uid, lastOp.id) # {}

\* C9: a get_nearby_products call whose latitude or longitude is missing
\* returns rows of active products only, whether or not they have a location,
\* each once: as many as limit_count allows of the active products its caller
\* can read, newest first, and no product left out is newer than one returned.
C9_NoCoordinatesMostRecent ==
    (nearby.via # "none" /\ (nearby.user_lat = NULL \/ nearby.user_lon = NULL))
        => LET rows == nearby.rows
               N == Len(nearby.rows)
           IN  /\ N = Min(nearby.limit_count, Cardinality(ReadableActive))
               /\ \A i \in 1 .. N :
                      /\ ProductOf(rows[i]) \in ReadableActive
                      /\ rows[i].status = "active"
                      /\ rows[i].created_at = ProductOf(rows[i]).created_at
               /\ \A i, j \in 1 .. N : i # j => rows[i].id # rows[j].id
               /\ \A i, j \in 1 .. N :
                      i < j => rows[i].created_at >= rows[j].created_at
               /\ \A p \in ReadableActive :
                      (\A i \in 1 .. N : rows[i].id # p.id)
                          => \A i \in 1 .. N : rows[i].created_at >= p.created_at

\* A call with no latitude and limit 1 on a table of two active products of
\* different age, one of them without a location: the limit has cut the
\* older one.
C9_Witness ==
    /\ nearby.via = "rpc"
    /\ nearby.user_lat = NULL
    /\ nearby.limit_count = 1
    /\ Len(nearby.rows) = 1
    /\ Cardinality(ReadableActive) = 2
    /\ \E p \in ReadableActive : p.created_at < nearby.rows[1].created_at
    /\ \E p \in ReadableActive : p.location_point = NoPoint

\* C10: a nearby query made with both coordinates returns at most limit_count
\* rows, each of an active product with a location point within radius_km of
\* the given point, ordered by ascending distance from that point and, at
\* equal distance, by descending creation time.
C10_WithinRadiusByDistance ==
    (nearby.via # "none" /\ nearby.userLat # NULL /\ nearby.userLon # NULL)
        => LET rows == nearby.rows
               N == Len(nearby.rows)
               here == ST_MakePoint(nearby.userLon, nearby.userLat)
               Dist(row) == ST_Distance(ProductOf(row).location_point, here)
           IN  /\ N <= nearby.limit_count
               /\ \A i \in 1 .. N :
                      /\ ProductOf(rows[i]).status = "active"
                      /\ ProductOf(rows[i]).location_point # NoPoint
                      /\ ST_DWithin(ProductOf(rows[i]).location_point, here,
                                    nearby.radius_km * 1000)
               /\ \A i, j \in 1 .. N :
                      i < j => \/ Dist(rows[i]) < Dist(rows[j])
                               \/ /\ Dist(rows[i]) = Dist(rows[j])
                                  /\ rows[i].created_at >= rows[j].created_at

\* The requests of SpecOrders that carry a value that is not positive.
BadItem(item) ==
    item.quantity <= 0 \/ item.unit_price <= 0 \/ item.total_price <= 0

BadItemLists == {items \in ItemLists : \E k \in DOMAIN items : BadItem(items[k])}

NonPositiveRequest ==
    \/ \E uid \in Users, id \in ProductIds, price \in Prices :
           price <= 0 /\ (\/ InsertProduct(uid, id, uid, "active", price)
                          \/ updateProduct(uid, id, uid, "active", price))
    \/ \E uid \in Callers, buyer \in Users, seller \in Users,
          total \in Amounts :
           total <= 0 /\ (\/ InsertOrder(uid, buyer, seller, total)
                          \/ CreateOrderInsertOrder(uid, seller, total))
    \/ \E uid \in Users, id \in OrderIds, total \in Amounts,
          status \in OrderStatusInputs :
           total <= 0 /\ UpdateOrder(uid, id, total, status)
    \/ \E uid \in Users, order \in OrderIds,
          items \in BadItemLists \cap SingleItems :
           InsertOrderItems(uid, order, items)
    \/ \E items \in BadItemLists : CreateOrderInsertItems(items)
    \/ \E uid \in Users, id \in OrderItemIds, q \in Quantities,
          u \in Prices, t \in Amounts :
           (q <= 0 \/ u <= 0 \/ t <= 0) /\ UpdateOrderItem(uid, id, q, u, t)

AmountsPositive ==
    /\ \A p \in products : p.price > 0
    /\ \A o \in orders : o.total_amount > 0
    /\ \A i \in order_items :
           i.unit_price > 0 /\ i.total_price > 0 /\ i.quantity > 0

\* A request that carries a value that is not positive and either changes
\* one of the three tables or ends without an error.
NonPositiveStored ==
    /\ NonPositiveRequest
    /\ ~(/\ UNCHANGED <<products, orders, order_items>>
         /\ lastOp'.outcome \in {"rls_violation", "check_violation",
                                  "not_authenticated", "no_rows"})

\* C11: every stored products.price, orders.total_amount,
\* order_items.unit_price, order_items.total_price and order_items.quantity
\* is greater than zero, and in no state can a request that carries a
\* non-positive value for one of them do anything but end in an error (or on
\* no row) and leave products, orders and order_items as they were.
C11_AmountsAndQuantitiesPositive ==
    AmountsPositive /\ ~ENABLED NonPositiveStored

\* A value that is not positive has been refused while the three tables
\* hold rows.
C11_Witness ==
    /\ lastOp.outcome = "check_violation"
    /\ products # {} /\ orders # {} /\ order_items # {}

RECURSIVE SumOfSeq(_)
SumOfSeq(s) == IF s = <<>> THEN 0 ELSE Head(s) + SumOfSeq(Tail(s))

RECURSIVE SumUnitTimesQuantity(_)
SumUnitTimesQuantity(rows) ==
    IF rows = {} THEN 0
    ELSE LET r == CHOOSE x \in rows : TRUE
         IN  r.unit_price * r.quantity + SumUnitTimesQuantity(rows \ {r})

RECURSIVE SumTotalPrice(_)
SumTotalPrice(rows) ==
    IF rows = {} THEN 0
    ELSE LET r == CHOOSE x \in rows : TRUE
         IN  r.total_price + SumTotalPrice(rows \ {r})

ItemsOf(order) == {i \in order_items : i.order_id = order}

\* Every order of the browser carries the sum of price times quantity of
\* its items.
MemTotalsAgree ==
    \A k \in DOMAIN memOrders :
        memOrders[k].totalAmount =
            SumOfSeq([j \in DOMAIN memOrders[k].items |->
                         memOrders[k].items[j].price
                             * memOrders[k].items[j].quantity])

\* The order a createOrder call of the data layer has just returned carries
\* the sum of its items.
StoredTotalsAgree ==
    lastOp.outcome = "created" =>
        \A o \in orders :
            o.id = lastOp.id =>
                /\ o.total_amount = SumUnitTimesQuantity(ItemsOf(o.id))
                /\ o.total_amount = SumTotalPrice(ItemsOf(o.id))

\* C12: when an order has just been created, its total amount is the sum
\* over its items of unit price times quantity, which is the sum of the item
\* totals, in the browser's order list and in the orders table.
C12_TotalIsSumOfItems == MemTotalsAgree /\ StoredTotalsAgree

\* C13: a user who may select a message is user1_id or user2_id of the
\* conversation the message belongs to.
C13_OnlyParticipantsRead ==
    \A r \in messages : \A U \in Users :
        MessagesSelectUsing(U, r) =>
            \E c \in conversations :
                /\ c.id = r.conversation_id
                /\ (U = c.user1_id \/ U = c.user2_id)

\* C14: a step changes the read flag of a message only when the request is
\* the receiver's.
C14_OnlyReceiverChangesIsRead ==
    [][\A r \in messages : \A n \in messages' :
           (n.id = r.id /\ n.is_read # r.is_read)
               => lastOp'.uid = r.receiver_id]_vars

\* C15: every object a step creates, rewrites or removes lies under the
\* folder named after the user who made the request, and every caller, with
\* or without a session, may read every object.
C15_WritesOnlyUnderOwnPrefix ==
    /\ [](\A uid \in Callers : \A o \in objects :
              ProductImagesArePubliclyViewable(uid, o))
    /\ [][\A o \in (objects' \ objects) \cup (objects \ objects') :
              foldername1(o.name) = lastOp'.uid]_vars

\* C16: a step leaves every order item in the table, with every field as it
\* was.
C16_OrderItemsImmutable == [][\A i \in order_items : i \in order_items']_vars

\* C17: a step stores a return only when the request is the buyer's of the
\* order the return names and that order is delivered.
C17_ReturnByBuyerOfDeliveredOrder ==
    [][\A r \in returns' \ returns :
           \E o \in orders :
               /\ o.id = r.order_id
               /\ o.buyer_id = lastOp'.uid
               /\ o.status = "delivered"]_vars

LocationOf(row) ==
    <<row.city, row.state, row.pincode, row.latitude, row.longitude>>

\* The product with the location fields of the profile.
Relocated(p, profile) ==
    [p EXCEPT !.city = profile.city, !.state = profile.state,
              !.pincode = profile.pincode, !.latitude = profile.latitude,
              !.longitude = profile.longitude,
              !.location_point = profile.location_point]

\* C19: in every step, a product whose seller's profile changes one of city,
\* state, pincode, latitude, longitude and whose status is active ends with
\* the profile's new location fields and is otherwise as it was; every
\* other product (another seller's, sold or inactive, or with a seller
\* whose five fields stay the same) is left as it was.
C19_SyncOnlyActiveProductsOfSeller ==
    [][\A p \in products :
           LET old == user_profiles[p.seller_id]
               new == user_profiles'[p.seller_id]
           IN  IF LocationOf(old) # LocationOf(new) /\ p.status = "active"
               THEN /\ Relocated(p, new) \in products'
                    /\ Cardinality(products') = Cardinality(products)
               ELSE p \in products']_vars

\* The seller has moved with one product active and one not: the active one
\* carries the new city, the other one none.
C19_Witness ==
    /\ user_profiles[1].city = 1
    /\ lastOp.outcome = "updated"
    /\ \E p \in products, q \in products :
           /\ p.seller_id = 1 /\ p.status = "active" /\ p.city = 1
           /\ q.seller_id = 1 /\ q.status # "active" /\ q.city = NULL

ProductsOf(u) == {p \in products : p.seller_id = u}

ViewedOf(u) == {p \in ProductsOf(u) : p.views # NULL}

RECURSIVE TotalViews(_)
TotalViews(rows) ==
    IF rows = {} THEN 0
    ELSE LET r == CHOOSE x \in rows : TRUE
         IN  r.views + TotalViews(rows \ {r})

\* C18: every user with role seller or both has one seller_stats row, whose
\* total_products is the number of the user's products, active_products and
\* sold_products the numbers of those that are active and sold (together at
\* most total_products), and avg_views the average of their view counts, 0
\* when there is none to average.
C18_SellerStatsCountsAndAverage ==
    \A u \in Users :
        user_profiles[u].role \in {"seller", "both"} =>
            /\ Cardinality({s \in seller_stats : s.id = u}) = 1
            /\ \A s \in seller_stats :
                   s.id = u =>
                       /\ s.total_products = Cardinality(ProductsOf(u))
                       /\ s.active_products =
                              Cardinality({p \in ProductsOf(u) :
                                              p.status = "active"})
                       /\ s.sold_products =
                              Cardinality({p \in ProductsOf(u) :
                                              p.status = "sold"})
                       /\ s.active_products + s.sold_products
                              <= s.total_products
                       /\ IF ViewedOf(u) = {}
                          THEN s.avg_views.num = 0
                          ELSE s.avg_views.num * Cardinality(ViewedOf(u))
                                   = s.avg_views.den * TotalViews(ViewedOf(u))

\* A seller with an active and a sold product that have been viewed a
\* different number of times, and a seller with no product.
C18_Witness ==
    /\ \E u \in Users :
           /\ user_profiles[u].role \in {"seller", "both"}
           /\ \E p \in ProductsOf(u), q \in ProductsOf(u) :
                  /\ p.status = "active" /\ q.status = "sold"
                  /\ p.views = 1 /\ q.views = 0
    /\ \E u \in Users :
           /\ user_profiles[u].role \in {"seller", "both"}
           /\ ProductsOf(u) = {}

tables ==
    <<products, conversations, wishlists, orders, order_items, returns,
      messages, objects, user_profiles>>

\* A write operation of the data layer called with no session.
AnonymousWrite ==
    \/ \E id \in ProductIds, price \in Prices : createProduct(NULL, id, price)
    \/ \E p \in ProductIds : ToggleCheck("s1", NULL, p)
    \/ \E seller \in Users, total \in Amounts :
           CreateOrderInsertOrder(NULL, seller, total)
    \/ \E receiver \in Users, p \in Scopes : sendMessage(NULL, receiver, p)
    \/ \E order \in OrderIds, seller \in Users :
           createReturn(NULL, order, seller)
    \/ \E location \in LocationInputs : updateUserLocation(NULL, location)

\* An anonymous write that changes a table, goes on to a second statement or
\* ends otherwise than with 'User not authenticated'.
AnonymousWriteGoesOn ==
    /\ AnonymousWrite
    /\ ~(/\ UNCHANGED <<tables, tw, co>>
         /\ lastOp'.uid = NULL
         /\ lastOp'.outcome = "not_authenticated")

\* C20: in no state can toggle_wishlist, createProduct, createOrder,
\* sendMessage, createReturn or updateUserLocation, called with no
\* authenticated user, do anything but fail with 'User not authenticated'
\* and leave every table unchanged.
C20_AnonymousWritesFail == ~ENABLED AnonymousWriteGoesOn

\* An anonymous call has been refused while products, wishlists, orders and
\* returns hold rows.
C20_Witness ==
    /\ lastOp.uid = NULL /\ lastOp.outcome = "not_authenticated"
    /\ products # {} /\ wishlists # {} /\ orders # {} /\ returns # {}
    /\ user_profiles[1].city # NULL

\* C21: one checkout yields one order: while the timeout of a placed order
\* is pending no second one is started, and the step that ends the
\* processing adds exactly one order to the list and leaves the cart empty.
C21_OneCheckoutOneOrder ==
    [][/\ Len(timeouts') <= 1
       /\ Len(timeouts') < Len(timeouts) =>
              /\ Len(memOrders') = Len(memOrders) + 1
              /\ cart' = <<>>]_vars

\* The step has added one message from sender to receiver about product,
\* in a conversation of the two about product, and no other row.
OneNewMessage(sender, receiver, product) ==
    \E row \in messages' \ messages :
        /\ messages' = messages \cup {row}
        /\ row.sender_id = sender /\ row.receiver_id = receiver
        /\ row.product_id = product
        /\ \E c \in conversations' :
               /\ c.id = row.conversation_id
               /\ {c.user1_id, c.user2_id} = {sender, receiver}
               /\ c.product_id = product
               /\ conversations' \in {conversations, conversations \cup {c}}

\* C22: the direct insert and the send_message procedure, called by a user
\* for another user and a listed product or none, each leave exactly one
\* new message row in the conversation of the pair, creating the
\* conversation when it is missing.
C22_BothSendsLeaveOneMessage ==
    [][\A sender \in Users, receiver \in Users, p \in {NULL, 1} :
          sender # receiver =>
             /\ sendMessage(sender, receiver, p) =>
                    OneNewMessage(sender, receiver, p)
             /\ (/\ goc["s1"].pc = "idle"
                 /\ sendMessageRpc("s1", sender, receiver, p)
                 /\ goc'["s1"].pc = "idle") => OneNewMessage(sender, receiver, p)
             /\ (/\ goc["s1"].user1_id = sender
                 /\ goc["s1"].user2_id = receiver
                 /\ goc["s1"].product_id = p
                 /\ send_message("s1")) => OneNewMessage(sender, receiver, p)]_vars

\* The rows of the displayed list are those getMessages returns now for
\* the conversation with the given id, which has messages.
ShowsMessagesOf(id) ==
    \E c \in getConversations(1) :
        /\ c.id = id
        /\ getMessages(1, c.other_user, c.product_id) # <<>>
        /\ chat.mounted
        /\ chat.messages = getMessages(1, c.other_user, c.product_id)

\* The conversation with the given id has no message.
NothingToShow(id) ==
    \A c \in getConversations(1) :
        c.id = id => getMessages(1, c.other_user, c.product_id) = <<>>

\* C25: after the user has selected one conversation and then another, the
\* displayed messages eventually are those of the second and stay so
\* (while it has messages to show).
C25_ShowsLastSelected ==
    \A a \in 1 .. MaxConversations, b \in 1 .. MaxConversations :
        (a # b /\ selections = <<a, b>>)
            ~> (NothingToShow(b) \/ ShowsMessagesOf(b))

\* The product with the given id is in the list of ProductContext.
Listed(list, id) == \E i \in DOMAIN list : list[i].id = id

\* C26: a product an account has posted leaves the product list only while
\* that same account is the logged-in user.
C26_OnlyPosterDeletes ==
    [][\A e \in postedBy :
           (Listed(memProducts, e.product) /\ ~Listed(memProducts', e.product))
               => \E u \in authUser : u.id = e.account]_vars

\* C29: for an account register has created, while nobody is logged in,
\* login with its email and password sets the user to that account.
C29_RegisteredCanLogin ==
    \A r \in registered :
        authUser = {} =>
            ENABLED (/\ login(r.email, r.password)
                     /\ authUser' = {SessionUser(r)})

\* The createOrder call that ended last has failed.
CreateOrderFailed == co.pc = "idle" /\ lastOp.outcome \notin {"none", "created"}

\* C27: a createOrder call that has failed leaves no order row, and while
\* no call is between its two statements every stored order has at least
\* one order item.
C27_CreateOrderAllOrNothing ==
    /\ CreateOrderFailed => \A o \in orders : o.id # lastOp.id
    /\ co.pc = "idle" =>
           \A o \in orders : \E i \in order_items : i.order_id = o.id

\* The row's location_point is the point of its longitude and latitude when
\* both are set, and null otherwise.
PointAgrees(row) ==
    row.location_point =
        IF row.latitude # NULL /\ row.longitude # NULL
        THEN ST_MakePoint(row.longitude, row.latitude)
        ELSE NoPoint

\* C28: in every state the location_point of every profile and of every
\* product agrees with the row's latitude and longitude.
C28_LocationPointAgrees ==
    /\ \A u \in Users : PointAgrees(user_profiles[u])
    /\ \A p \in products : PointAgrees(p)

\* C30: the category the user picked last, with a category button of the
\* page or in the panel, is the selected category of the page.
C30_PickedCategoryStaysSelected ==
    \A category \in picked : home.selectedCategory = category

=============================================================================
